---- MODULE Spec2Model ----
(***************************************************************************)
(* Carveman: split a Postman collection document into a directory tree     *)
(* and build the document back from that tree.                             *)
(*                                                                         *)
(* Strings are sequences of one-character strings, so that sanitizing,     *)
(* lower-casing and suffixing are computed as the code computes them.      *)
(* Optional JSON fields are sequences of length 0 (absent) or 1 (present). *)
(* The file system is case-sensitive (POSIX), as on the platform the       *)
(* repository's tests run on.                                              *)
(***************************************************************************)
EXTENDS Integers, Sequences, FiniteSets, TLC

VARIABLES
    doc,          \* the input collection document handed to split
    fs,           \* the file system: path -> entry
    phase,        \* "start" | "split" | "built"
    split_result, \* SplitResult of the last split
    build_result, \* BuildResult of the last build
    rebuilt,      \* the collection assembled by the last build (Opt)
    edits,        \* number of user edits made to the split output
    split_options, \* the options of the last split
    verdict,      \* ValidationResult of the last validateCollection call
    fs_before,    \* the file system as the last split or build found it
    build_options, \* the options of the last build
    raw_name,     \* a display name handed to the sanitizer
    sanitized,     \* the results of the successive sanitizer applications
    ops,          \* the split operations in flight, each with its position
    parser_names, \* existing_names of the one postman_parser they share
    walk,         \* the build in flight: its position and recursion stack
    argv,         \* process.argv handed to the CliParser
    cli_command,  \* what CliParser.parse returned
    scope_names,  \* the names taken in a sibling scope
    uniquified    \* what the uniquifier returned for raw_name in that scope

vars == <<doc, fs, phase, split_result, build_result, rebuilt, edits,
          split_options, verdict, fs_before, build_options, raw_name, sanitized,
          ops, parser_names, walk, argv, cli_command, scope_names, uniquified>>

\* the arguments and results of the functions called on their own
callVars == <<argv, cli_command, scope_names, uniquified>>

\* the state of the calls in flight, each between two of its awaits
stepVars == <<ops, parser_names, walk>>

(***************************************************************************)
(* Bounds                                                                  *)
(***************************************************************************)
MaxNodes == 3   \* items (folders and requests) in an input document
MaxEdits == 1   \* user edits of the directory between split and build
MaxCandidateNodes == 2   \* items in a candidate document handed to the validator
MaxNamedNodes == 2   \* items in a document with names that change on disk
MaxNameLen == 3   \* characters of a display name handed to the sanitizer
MaxApplications == 2   \* successive applications of the sanitizer to a name
MaxFirstNodes == 1   \* items in the document of the first of two concurrent splits
MaxSecondNodes == 1   \* items in the document of the second of two concurrent splits
MaxSuffix == 2   \* suffixed forms of a candidate that a scope may hold
MaxResultNodes == 1   \* items in a document whose split and build results are compared
MaxArgs == 3   \* words on the command line after the program name
MaxVisits == 2     \* loops over one folder that the build's stack keeps at once
MaxDisturbedNodes == 2   \* items in a document whose split and build the user disturbs

(***************************************************************************)
(* Characters                                                              *)
(***************************************************************************)
LowerSeq == <<"a","b","c","d","e","f","g","h","i","j","k","l","m",
              "n","o","p","q","r","s","t","u","v","w","x","y","z">>
UpperSeq == <<"A","B","C","D","E","F","G","H","I","J","K","L","M",
              "N","O","P","Q","R","S","T","U","V","W","X","Y","Z">>
DigitSeq == <<"0","1","2","3","4","5","6","7","8","9">>

Range(s) == {s[i] : i \in DOMAIN s}

Lower == Range(LowerSeq)
Upper == Range(UpperSeq)
Digits == Range(DigitSeq)
\* the characters with char codes 0..31; a character that has no escape is
\* written as its code point
ControlSeq == <<"U+0000", "U+0001", "U+0002", "U+0003", "U+0004", "U+0005",
                "U+0006", "U+0007", "U+0008", "\t", "\n", "U+000B", "\f", "\r",
                "U+000E", "U+000F", "U+0010", "U+0011", "U+0012", "U+0013",
                "U+0014", "U+0015", "U+0016", "U+0017", "U+0018", "U+0019",
                "U+001A", "U+001B", "U+001C", "U+001D", "U+001E", "U+001F">>
ControlChars == Range(ControlSeq)
\* matched by \s and stripped by trim()
Whitespace ==
    {" ", "\t", "\n", "U+000B", "\f", "\r", "U+00A0", "U+1680",
     "U+2000", "U+2001", "U+2002", "U+2003", "U+2004", "U+2005", "U+2006",
     "U+2007", "U+2008", "U+2009", "U+200A", "U+2028", "U+2029", "U+202F",
     "U+205F", "U+3000", "U+FEFF"}
InvalidChars == {"<", ">", ":", "\"", "/", "\\", "|", "?", "*"}

ToLowerCase(ch) ==
    IF ch \in Upper
    THEN LowerSeq[CHOOSE i \in DOMAIN UpperSeq : UpperSeq[i] = ch]
    ELSE ch

(***************************************************************************)
(* String helpers                                                          *)
(***************************************************************************)
MapSeq(s, F(_)) == [i \in DOMAIN s |-> F(s[i])]

RECURSIVE DropLeading(_, _)
DropLeading(s, cls) ==
    IF s # <<>> /\ Head(s) \in cls THEN DropLeading(Tail(s), cls) ELSE s

RECURSIVE DropTrailing(_, _)
DropTrailing(s, cls) ==
    IF s # <<>> /\ s[Len(s)] \in cls
    THEN DropTrailing(SubSeq(s, 1, Len(s) - 1), cls)
    ELSE s

\* replace(/[cls]+/g, rep): every maximal run of cls characters becomes rep
RECURSIVE ReplaceRuns(_, _, _)
ReplaceRuns(s, cls, rep) ==
    IF s = <<>> THEN <<>>
    ELSE IF Head(s) \in cls
         THEN rep \o ReplaceRuns(DropLeading(s, cls), cls, rep)
         ELSE <<Head(s)>> \o ReplaceRuns(Tail(s), cls, rep)

\* replace(/[cls]/g, rep): every cls character becomes rep
RECURSIVE ReplaceEach(_, _, _)
ReplaceEach(s, cls, rep) ==
    IF s = <<>> THEN <<>>
    ELSE (IF Head(s) \in cls THEN rep ELSE <<Head(s)>>)
         \o ReplaceEach(Tail(s), cls, rep)

\* replace(/^(\d)/, '_$1')
PrefixLeadingDigit(s) ==
    IF s # <<>> /\ Head(s) \in Digits THEN <<"_">> \o s ELSE s

\* decimal digits of a natural number
RECURSIVE IntToStr(_)
IntToStr(n) ==
    IF n < 10 THEN <<DigitSeq[n + 1]>>
    ELSE IntToStr(n \div 10) \o <<DigitSeq[(n % 10) + 1]>>

\* s.endsWith(suffix)
EndsWith(s, suffix) ==
    /\ Len(s) >= Len(suffix)
    /\ SubSeq(s, Len(s) - Len(suffix) + 1, Len(s)) = suffix

\* s.includes(sub)
Includes(s, sub) ==
    \E i \in 0..(Len(s) - Len(sub)) : SubSeq(s, i + 1, i + Len(sub)) = sub

UNNAMED == <<"u","n","n","a","m","e","d">>
COLLECTION == <<"c","o","l","l","e","c","t","i","o","n">>
DOT_JSON == <<".","j","s","o","n">>
INDEX_JSON == <<"i","n","d","e","x">> \o DOT_JSON

(***************************************************************************)
(* utils/sanitization                                                      *)
(***************************************************************************)
sanitizeName(name) ==
    LET s1 == ReplaceRuns(name, Whitespace, <<"_">>)
        s2 == ReplaceEach(s1, {"-"}, <<"_">>)
        s3 == SelectSeq(s2, LAMBDA ch : ch \in Lower \cup Upper \cup Digits \cup {"_"})
        s4 == MapSeq(s3, ToLowerCase)
        s5 == DropTrailing(DropLeading(s4, {"_"}), {"_"})
        s6 == ReplaceRuns(s5, {"_"}, <<"_">>)
        s7 == PrefixLeadingDigit(s6)
    IN IF s7 = <<>> THEN UNNAMED ELSE s7

RECURSIVE generateUniqueNameLoop(_, _, _, _)
generateUniqueNameLoop(base_name, existing_names, unique_name, counter) ==
    IF unique_name \in existing_names
    THEN generateUniqueNameLoop(base_name, existing_names,
                                base_name \o <<"_">> \o IntToStr(counter),
                                counter + 1)
    ELSE unique_name

generateUniqueName(base_name, existing_names) ==
    generateUniqueNameLoop(base_name, existing_names, base_name, 1)

RECURSIVE generateUniqueOriginalNameLoop(_, _, _, _)
generateUniqueOriginalNameLoop(base_name, existing_names, unique_name, counter) ==
    IF unique_name \in existing_names
    THEN generateUniqueOriginalNameLoop(base_name, existing_names,
             base_name \o <<" ", "(">> \o IntToStr(counter) \o <<")">>,
             counter + 1)
    ELSE unique_name

\* a uniquifier whose first suffix is " (2)"
generateUniqueOriginalNameFromTwo(base_name, existing_names) ==
    generateUniqueOriginalNameLoop(base_name, existing_names, base_name, 2)

generateUniqueOriginalName(base_name, existing_names) ==
    generateUniqueOriginalNameLoop(base_name, existing_names, base_name, 1)

sanitizeFileName(name) == sanitizeName(name) \o DOT_JSON

createSafeDirectoryName(collection_name) ==
    LET s == sanitizeName(collection_name)
    IN IF s = <<>> THEN COLLECTION ELSE s

\* a sanitizer that forgets the fallback for names without usable characters
sanitizeOriginalNameNoFallback(name) ==
    LET trimmed == DropTrailing(DropLeading(name, Whitespace), Whitespace)
        c1 == SelectSeq(trimmed, LAMBDA ch : ch \notin InvalidChars)
        c2 == SelectSeq(c1, LAMBDA ch : ch \notin ControlChars)
    IN PrefixLeadingDigit(c2)

sanitizeOriginalName(name) ==
    LET trimmed == DropTrailing(DropLeading(name, Whitespace), Whitespace)
        c1 == SelectSeq(trimmed, LAMBDA ch : ch \notin InvalidChars)
        c2 == SelectSeq(c1, LAMBDA ch : ch \notin ControlChars)
        c3 == IF c2 = <<>> \/ \A i \in DOMAIN c2 : c2[i] = "." THEN UNNAMED ELSE c2
    IN PrefixLeadingDigit(c3)

sanitizeOriginalFileName(name) == sanitizeOriginalName(name) \o DOT_JSON

(***************************************************************************)
(* JSON values                                                             *)
(*   optional field : <<>> (absent) or <<v>> (present)                     *)
(*   item field     : [t |-> "absent" | "array" | "other", v |-> items]    *)
(***************************************************************************)
Absent == <<>>
Some(v) == <<v>>
IsPresent(opt) == opt # <<>>
\* a present, non-empty string (JS truthiness of a string field)
TruthyStr(opt) == opt # <<>> /\ opt[1] # <<>>
\* opt || dflt
OrElse(opt, dflt) == IF opt # <<>> THEN opt[1] ELSE dflt

NoItems == [t |-> "absent", v |-> <<>>]
ItemArray(items) == [t |-> "array", v |-> items]
\* a truthy value that is neither an array nor iterable: a number, true,
\* a plain object
NotAnArray == [t |-> "other", v |-> <<>>]

Message(text, arg) == [msg |-> text, arg |-> arg]

ROOT == <<"r","o","o","t">>
ItemPath(path, i) ==
    path \o <<".","i","t","e","m","[">> \o IntToStr(i) \o <<"]">>

(***************************************************************************)
(* PostmanParser: validation                                               *)
(***************************************************************************)
RECURSIVE validateItems(_, _)
RECURSIVE validateItemsFrom(_, _, _, _)
\* the loop body for items[i] (1-based here, 0-based in the messages)
validateItemsFrom(items, path, i, result) ==
    IF i > Len(items) THEN result
    ELSE
      LET item == items[i]
          item_path == ItemPath(path, i - 1)
          has_items == item.item.t = "array"
          has_request == IsPresent(item.request)
          nested == validateItems(item.item.v, item_path)
          next ==
            IF ~item.is_object
            THEN [result EXCEPT !.errors =
                    Append(@, Message("Invalid item: not an object", item_path))]
            ELSE IF ~TruthyStr(item.name)
            THEN [result EXCEPT !.errors =
                    Append(@, Message("Invalid item: missing or invalid name", item_path))]
            ELSE IF ~(has_items \/ has_request)
            THEN [result EXCEPT !.errors =
                    Append(@, Message("Item has neither item nor request field", item_path))]
            ELSE
              LET warned ==
                    IF has_items /\ has_request
                    THEN [result EXCEPT !.warnings =
                            Append(@, Message("Item has both item and request fields, treating as folder", item_path))]
                    ELSE result
              IN IF has_items
                 THEN [warned EXCEPT !.errors = @ \o nested.errors,
                                     !.warnings = @ \o nested.warnings]
                 ELSE warned
      IN validateItemsFrom(items, path, i + 1, next)

validateItems(items, path) ==
    validateItemsFrom(items, path, 1,
                      [is_valid |-> TRUE, errors |-> <<>>, warnings |-> <<>>])

\* validateCollection returning at the first info error
validateCollectionFirstError(json_data) ==
    LET ok == [is_valid |-> TRUE, errors |-> <<>>, warnings |-> <<>>]
        Fail(r, text) == [r EXCEPT !.is_valid = FALSE,
                                   !.errors = Append(@, Message(text, <<>>))]
    IN
    IF ~json_data.is_object THEN Fail(ok, "Invalid JSON: not an object")
    ELSE IF ~IsPresent(json_data.info) THEN Fail(ok, "Missing required info field")
    ELSE IF ~TruthyStr(json_data.info[1].name)
    THEN Fail(ok, "Missing or invalid info.name field")
    ELSE IF ~TruthyStr(json_data.info[1].schema)
    THEN Fail(ok, "Missing or invalid info.schema field")
    ELSE
      LET r2 == IF ~Includes(json_data.info[1].schema[1], <<"v","2",".","1">>)
                THEN [ok EXCEPT !.warnings =
                        Append(@, Message("Schema version is not v2.1", <<>>))]
                ELSE ok
      IN IF json_data.item.t = "absent" THEN Fail(r2, "Missing required item field")
         ELSE IF json_data.item.t # "array" THEN Fail(r2, "item field must be an array")
         ELSE
           LET item_validation == validateItems(json_data.item.v, ROOT)
           IN [is_valid |-> item_validation.errors = <<>>,
               errors |-> item_validation.errors,
               warnings |-> r2.warnings \o item_validation.warnings]

validateCollection(json_data) ==
    LET ok == [is_valid |-> TRUE, errors |-> <<>>, warnings |-> <<>>]
        Fail(r, text) == [r EXCEPT !.is_valid = FALSE,
                                   !.errors = Append(@, Message(text, <<>>))]
    IN
    IF ~json_data.is_object THEN Fail(ok, "Invalid JSON: not an object")
    ELSE IF ~IsPresent(json_data.info) THEN Fail(ok, "Missing required info field")
    ELSE
      LET info == json_data.info[1]
          r1 == IF ~TruthyStr(info.name)
                THEN Fail(ok, "Missing or invalid info.name field")
                ELSE ok
          r2 == IF ~TruthyStr(info.schema)
                THEN Fail(r1, "Missing or invalid info.schema field")
                ELSE IF ~Includes(info.schema[1], <<"v","2",".","1">>)
                THEN [r1 EXCEPT !.warnings =
                        Append(@, Message("Schema version is not v2.1", <<>>))]
                ELSE r1
      IN IF json_data.item.t = "absent" THEN Fail(r2, "Missing required item field")
         ELSE IF json_data.item.t # "array" THEN Fail(r2, "item field must be an array")
         ELSE
           LET item_validation == validateItems(json_data.item.v, ROOT)
           IN [is_valid |-> r2.is_valid /\ item_validation.errors = <<>>,
               errors |-> r2.errors \o item_validation.errors,
               warnings |-> r2.warnings \o item_validation.warnings]

(***************************************************************************)
(* PostmanParser: parsing                                                  *)
(* existing_names is a field of the parser object: the set is threaded     *)
(* through the whole walk and returned with each processed item.           *)
(***************************************************************************)
RECURSIVE ParserProcessItem(_, _, _)
RECURSIVE ParserProcessChildren(_, _, _, _, _)
\* the loop over item.item after processItem returned r for the i-th item
ParserChildProcessed(items, i, current_path, children, r) ==
    IF r.thrown
    THEN [children |-> children, existing_names |-> r.existing_names, thrown |-> TRUE]
    ELSE ParserProcessChildren(items, i + 1, current_path,
                               Append(children, r.processed), r.existing_names)

\* the loop over item.item: returns [children, existing_names, thrown];
\* thrown when processItem threw for one of the items
ParserProcessChildren(items, i, current_path, children, existing_names) ==
    IF i > Len(items)
    THEN [children |-> children, existing_names |-> existing_names, thrown |-> FALSE]
    ELSE ParserChildProcessed(items, i, current_path, children,
                              ParserProcessItem(items[i], current_path, existing_names))

\* a parser that takes a node carrying a request payload for a request,
\* whether or not it has an item list
ParserProcessItemRequestFirst(item, parent_path, existing_names) ==
    LET sanitized_name == sanitizeOriginalName(item.name[1])
        unique_name == generateUniqueName(sanitized_name, existing_names)
        current_path == IF parent_path # <<>>
                        THEN parent_path \o <<"/">> \o unique_name
                        ELSE unique_name
        is_folder == item.item.t # "absent" /\ ~IsPresent(item.request)
        kids == IF is_folder /\ item.item.t = "array"
                THEN ParserProcessChildren(item.item.v, 1, current_path, <<>>,
                                           existing_names \cup {unique_name})
                ELSE [children |-> <<>>,
                      existing_names |-> existing_names \cup {unique_name},
                      thrown |-> is_folder]
    IN [processed |->
          [original_name |-> item.name[1],
           sanitized_name |-> unique_name,
           path |-> current_path,
           type |-> IF is_folder THEN "folder" ELSE "request",
           children |-> kids.children,
           request |-> IF is_folder THEN Absent ELSE item.request,
           response |-> IF is_folder \/ ~IsPresent(item.request)
                        THEN Absent
                        ELSE Some(OrElse(item.response, <<>>))],
        existing_names |-> kids.existing_names,
        thrown |-> kids.thrown]

\* returns [processed, existing_names, thrown]. A node whose item field is
\* truthy is taken for a folder; the loop over an item field that is not an
\* array throws a TypeError
ParserProcessItem(item, parent_path, existing_names) ==
    LET sanitized_name == sanitizeOriginalName(item.name[1])
        unique_name == generateUniqueName(sanitized_name, existing_names)
        names1 == existing_names \cup {unique_name}
        current_path == IF parent_path # <<>>
                        THEN parent_path \o <<"/">> \o unique_name
                        ELSE unique_name
        is_folder == item.item.t # "absent"
        kids == IF is_folder /\ item.item.t = "array"
                THEN ParserProcessChildren(item.item.v, 1, current_path, <<>>, names1)
                ELSE [children |-> <<>>, existing_names |-> names1,
                      thrown |-> is_folder]
    IN [processed |->
          [original_name |-> item.name[1],
           sanitized_name |-> unique_name,
           path |-> current_path,
           type |-> IF is_folder THEN "folder" ELSE "request",
           children |-> kids.children,
           request |-> IF is_folder THEN Absent ELSE item.request,
           response |-> IF is_folder \/ ~IsPresent(item.request)
                        THEN Absent
                        ELSE Some(OrElse(item.response, <<>>))],
        existing_names |-> kids.existing_names,
        thrown |-> kids.thrown]

RECURSIVE createStructureItem(_)
createStructureItem(processed_item) ==
    [name |-> processed_item.sanitized_name,
     type |-> processed_item.type,
     original_name |-> processed_item.original_name,
     children |-> MapSeq(processed_item.children, createStructureItem)]

\* private existing_names: Set<string> = new Set()
NewParserNames == {}

KeepExistingNames(existing_names) == existing_names

\* this.existing_names.clear()
clearExistingNames(existing_names) == {}

\* parseCollection run on a parser whose registry holds existing_names:
\* returns [parsed, existing_names, thrown], the registry as the call
\* leaves it; when thrown, parsed is not returned to the caller
parseCollectionOn(collection, existing_names) ==
    LET r == ParserProcessChildren(collection.item.v, 1, <<>>, <<>>,
                                   clearExistingNames(existing_names))
    IN [parsed |-> [info |-> collection.info[1],
                    metadata |-> [variable |-> OrElse(collection.variable, <<>>),
                                  event |-> OrElse(collection.event, <<>>)],
                    items |-> r.children,
                    structure |-> MapSeq(r.children, createStructureItem)],
        existing_names |-> r.existing_names,
        thrown |-> r.thrown]

\* parseCollection on the parser of a fresh process
parseCollection(collection) == parseCollectionOn(collection, NewParserNames).parsed

createCollectionIndex(collection_info, metadata, structure) ==
    [meta |-> [type |-> "collection"],
     info |-> collection_info,
     variable |-> Some(metadata.variable),
     event |-> Some(metadata.event),
     order |-> MapSeq(structure,
                      LAMBDA item : IF item.type = "folder"
                                    THEN item.name
                                    ELSE item.name \o DOT_JSON)]

\* a folder index that stores the on-disk name of the folder
createFolderIndexOnDiskName(processed_item, parent_path) ==
    [meta |-> [type |-> "folder", parent_path |-> parent_path],
     name |-> processed_item.sanitized_name,
     order |-> MapSeq(processed_item.children,
                      LAMBDA child : IF child.type = "folder"
                                     THEN child.sanitized_name
                                     ELSE sanitizeOriginalFileName(child.sanitized_name))]

\* defined for folder items only (the code throws otherwise)
createFolderIndex(processed_item, parent_path) ==
    [meta |-> [type |-> "folder", parent_path |-> parent_path],
     name |-> processed_item.original_name,
     order |-> MapSeq(processed_item.children,
                      LAMBDA child : IF child.type = "folder"
                                     THEN child.sanitized_name
                                     ELSE sanitizeOriginalFileName(child.sanitized_name))]

\* the code throws unless the item is a request carrying a request payload
createRequestFileThrows(processed_item) ==
    processed_item.type # "request" \/ ~IsPresent(processed_item.request)

createRequestFile(processed_item, folder_path) ==
    [meta |-> [type |-> "request", folder_path |-> folder_path],
     name |-> processed_item.original_name,
     request |-> processed_item.request,
     response |-> processed_item.response]

(***************************************************************************)
(* FileSystemManager                                                       *)
(* A path is a sequence of components relative to the working directory,  *)
(* which is <<>>; leading ".." components climb above it and a last empty  *)
(* component stands for a trailing separator.                              *)
(* fs maps every existing path to [kind |-> "dir"] or                      *)
(* [kind |-> "file", data |-> the JSON value stored].                      *)
(***************************************************************************)
DirEntry == [kind |-> "dir"]
FileEntry(data) == [kind |-> "file", data |-> data]

EmptyFs == [p \in {<<>>} |-> DirEntry]

\* the "/"-separated segments of a name: those from position start on,
\* the one being read reaching position i
RECURSIVE Segments(_, _, _)
Segments(name, start, i) ==
    IF i > Len(name) THEN <<SubSeq(name, start, Len(name))>>
    ELSE IF name[i] = "/"
         THEN <<SubSeq(name, start, i - 1)>> \o Segments(name, i + 1, i + 1)
         ELSE Segments(name, start, i + 1)

DOT == <<".">>
DOTDOT == <<".", ".">>

\* the path ends in a separator
HasSlash(path) == path # <<>> /\ path[Len(path)] = <<>>
StripSlash(path) == IF HasSlash(path) THEN SubSeq(path, 1, Len(path) - 1) ELSE path

\* path.join normalisation of the segments appended to a path: empty and
\* "." segments vanish, ".." takes the last component away or, where none
\* is left, stays; a name that ends in a separator leaves one
RECURSIVE Normalize(_, _)
Normalize(path, segs) ==
    IF segs = <<>> THEN path
    ELSE IF Head(segs) = <<>> /\ Tail(segs) = <<>> THEN Append(path, <<>>)
    ELSE IF Head(segs) = <<>> \/ Head(segs) = DOT THEN Normalize(path, Tail(segs))
    ELSE IF Head(segs) # DOTDOT THEN Normalize(Append(path, Head(segs)), Tail(segs))
    ELSE IF path = <<>> \/ path[Len(path)] = DOTDOT
    THEN Normalize(Append(path, DOTDOT), Tail(segs))
    ELSE Normalize(SubSeq(path, 1, Len(path) - 1), Tail(segs))

\* path.join(path, name): an empty name is skipped
joinPath(path, name) ==
    IF name = <<>> THEN path ELSE Normalize(StripSlash(path), Segments(name, 1, 1))

dirname(path) == SubSeq(StripSlash(path), 1, Len(StripSlash(path)) - 1)

Prefixes(path) == {SubSeq(path, 1, k) : k \in 0..Len(path)}
IsPrefix(p, q) == Len(p) <= Len(q) /\ SubSeq(q, 1, Len(p)) = p

\* a directory above the working directory: these exist whatever fs holds
IsAncestor(path) == path # <<>> /\ \A i \in DOMAIN path : path[i] = DOTDOT

\* stat(path) finds a directory; a trailing separator changes nothing
isDirectory(f, path) ==
    \/ IsAncestor(StripSlash(path))
    \/ StripSlash(path) \in DOMAIN f /\ f[StripSlash(path)].kind = "dir"
\* stat(path) finds a file; a path with a trailing separator names none
isFile(f, path) == path \in DOMAIN f /\ f[path].kind = "file"
\* access(path)
pathExists(f, path) == isDirectory(f, path) \/ isFile(f, path)

\* mkdir(path, {recursive: true}): [ok, fs]
createDirectory(f, directory_path) ==
    IF \E q \in Prefixes(StripSlash(directory_path)) : isFile(f, q)
    THEN [ok |-> FALSE, fs |-> f]
    ELSE [ok |-> TRUE,
          fs |-> [q \in DOMAIN f \cup Prefixes(StripSlash(directory_path)) |->
                    IF q \in DOMAIN f THEN f[q] ELSE DirEntry]]

\* Bun.write(file_path, JSON.stringify(data)): [ok, fs]
bunWrite(f, file_path, data) ==
    IF HasSlash(file_path) \/ isDirectory(f, file_path)
                           \/ ~isDirectory(f, dirname(file_path))
    THEN [ok |-> FALSE, fs |-> f]
    ELSE [ok |-> TRUE,
          fs |-> [q \in DOMAIN f \cup {file_path} |->
                    IF q = file_path THEN FileEntry(data) ELSE f[q]]]

\* the write of writeJsonFile once its createDirectory returned d
writeAfterMkdir(d, file_path, data) ==
    IF ~d.ok THEN d ELSE bunWrite(d.fs, file_path, data)

\* createDirectory(dirname(file_path)), then Bun.write: [ok, fs]
writeJsonFile(f, file_path, data) ==
    writeAfterMkdir(createDirectory(f, dirname(file_path)), file_path, data)

\* the content of a file that does not parse as JSON
CorruptJson == [corrupt |-> TRUE]

\* a read that takes a file it cannot parse for an empty collection index
readJsonFileLenient(f, file_path) ==
    IF isFile(f, file_path) /\ "corrupt" \notin DOMAIN f[file_path].data
    THEN [ok |-> TRUE, data |-> f[file_path].data]
    ELSE [ok |-> TRUE,
          data |-> [meta |-> [type |-> "collection"],
                    info |-> [name |-> <<>>, schema |-> <<>>],
                    order |-> <<>>]]

\* Bun.file(path).json(): [ok, data]
readJsonFile(f, file_path) ==
    IF isFile(f, file_path) /\ "corrupt" \notin DOMAIN f[file_path].data
    THEN [ok |-> TRUE, data |-> f[file_path].data]
    ELSE [ok |-> FALSE, data |-> [meta |-> [type |-> "none"]]]

writeCollectionIndex(f, directory_path, collection_index) ==
    writeJsonFile(f, joinPath(directory_path, INDEX_JSON), collection_index)

writeFolderIndex(f, directory_path, folder_index) ==
    writeJsonFile(f, joinPath(directory_path, INDEX_JSON), folder_index)

writeRequestFile(f, directory_path, filename, request_data) ==
    writeJsonFile(f, joinPath(directory_path, filename), request_data)

readCollectionIndex(f, directory_path) ==
    readJsonFile(f, joinPath(directory_path, INDEX_JSON))

readFolderIndex(f, directory_path) ==
    readJsonFile(f, joinPath(directory_path, INDEX_JSON))

readRequestFile(f, file_path) == readJsonFile(f, file_path)

\* the ValidationResult of validateDirectoryStructure
StructureValid == [is_valid |-> TRUE, errors |-> <<>>, warnings |-> <<>>]
StructureInvalid(text) ==
    [is_valid |-> FALSE, errors |-> <<Message(text, <<>>)>>, warnings |-> <<>>]

(***************************************************************************)
(* SplitCommand                                                            *)
(***************************************************************************)
OUTPUT_DIR == << <<"o","u","t">> >>      \* options.output

EmptyItemResult(f) ==
    [fs |-> f, files_created |-> 0, folders_created |-> 0,
     errors |-> <<>>, warnings |-> <<>>]

\* a caught exception in processItem
ItemFailure(r, item) ==
    [r EXCEPT !.errors = Append(@, Message("Failed to process item", item.original_name))]

RECURSIVE SplitProcessItem(_, _, _)
RECURSIVE SplitProcessChildren(_, _, _, _)
\* the loop over item.children, accumulating into the folder's result
SplitProcessChildren(children, i, folder_path, result) ==
    IF i > Len(children) THEN result
    ELSE LET child_result == SplitProcessItem(children[i], folder_path, result.fs)
         IN SplitProcessChildren(children, i + 1, folder_path,
              [fs |-> child_result.fs,
               files_created |-> result.files_created + child_result.files_created,
               folders_created |-> result.folders_created + child_result.folders_created,
               errors |-> result.errors \o child_result.errors,
               warnings |-> result.warnings \o child_result.warnings])

\* the request branch after writeRequestFile
SplitRequestWritten(result, item, wrote) ==
    IF ~wrote.ok THEN ItemFailure([result EXCEPT !.fs = wrote.fs], item)
    ELSE [result EXCEPT !.fs = wrote.fs, !.files_created = @ + 1]

\* the folder branch after writeFolderIndex: the children are processed
SplitFolderIndexWritten(result, item, folder_path, wrote) ==
    IF ~wrote.ok THEN ItemFailure([result EXCEPT !.fs = wrote.fs], item)
    ELSE SplitProcessChildren(item.children, 1, folder_path,
             [result EXCEPT !.fs = wrote.fs, !.files_created = @ + 1])

\* the folder branch after createDirectory
SplitFolderCreated(result, item, parent_path, folder_path, made) ==
    IF ~made.ok THEN ItemFailure(result, item)
    ELSE SplitFolderIndexWritten(
             [result EXCEPT !.fs = made.fs, !.folders_created = @ + 1],
             item, folder_path,
             writeFolderIndex(made.fs, folder_path,
                              createFolderIndex(item, parent_path)))

\* the folder branch from its folder_path on
SplitFolder(result, item, parent_path, folder_path) ==
    SplitFolderCreated(result, item, parent_path, folder_path,
                       createDirectory(result.fs, folder_path))

\* returns the ItemProcessResult together with the file system it leaves
SplitProcessItem(item, parent_path, f) ==
    IF item.type = "folder"
    THEN SplitFolder(EmptyItemResult(f), item, parent_path,
                     joinPath(parent_path, item.sanitized_name))
    ELSE IF item.type = "request"
    THEN IF createRequestFileThrows(item)
         THEN ItemFailure(EmptyItemResult(f), item)
         ELSE SplitRequestWritten(EmptyItemResult(f), item,
                  writeRequestFile(f, parent_path,
                                   sanitizeFileName(item.sanitized_name),
                                   createRequestFile(item, parent_path)))
    ELSE EmptyItemResult(f)

RECURSIVE countItems(_, _)
countItems(items, i) ==
    IF i > Len(items) THEN [files |-> 0, folders |-> 0]
    ELSE LET rest == countItems(items, i + 1)
             item == items[i]
             child_counts == countItems(item.children, 1)
         IN IF item.type = "folder"
            THEN [files |-> rest.files + 1 + child_counts.files,
                  folders |-> rest.folders + 1 + child_counts.folders]
            ELSE IF item.type = "request"
            THEN [files |-> rest.files + 1, folders |-> rest.folders]
            ELSE rest

performDryRun(parsed_collection, output_path) ==
    LET count_result == countItems(parsed_collection.items, 1)
    IN [success |-> TRUE,
        collection_name |-> parsed_collection.info.name[1],
        output_directory |-> output_path,
        files_created |-> 1 + count_result.files,
        folders_created |-> 1 + count_result.folders,
        errors |-> <<>>,
        warnings |-> <<>>]

\* a prompt that is always answered with yes
promptOverwriteYes(path) == TRUE

\* the interactive prompt is not implemented: it always answers no
promptOverwrite(path) == FALSE

InitialSplitResult ==
    [success |-> FALSE, collection_name |-> <<>>, output_directory |-> <<>>,
     files_created |-> 0, folders_created |-> 0,
     errors |-> <<>>, warnings |-> <<>>]

\* a catch block that returns the result without recording the exception
SplitThrownSilent(r, g) == [result |-> r, fs |-> g]

\* the catch block of execute
SplitThrown(r, g) ==
    [result |-> [r EXCEPT !.errors =
                   Append(@, Message("Split operation failed", <<>>))],
     fs |-> g]

\* the end of execute, after the loop over parsed_collection.items
SplitFinish(r1, walked) ==
    [result |-> [r1 EXCEPT !.files_created = walked.files_created,
                           !.folders_created = walked.folders_created,
                           !.errors = walked.errors,
                           !.warnings = walked.warnings,
                           !.success = walked.errors = <<>>],
     fs |-> walked.fs]

\* execute after writeCollectionIndex
SplitIndexWritten(r1, parsed_collection, full_output_path, wrote) ==
    IF ~wrote.ok THEN SplitThrown([r1 EXCEPT !.folders_created = 1], wrote.fs)
    ELSE SplitFinish(r1,
             SplitProcessChildren(parsed_collection.items, 1, full_output_path,
                 [fs |-> wrote.fs, files_created |-> 1, folders_created |-> 1,
                  errors |-> <<>>, warnings |-> r1.warnings]))

\* execute after the root createDirectory
SplitRootCreated(r1, parsed_collection, full_output_path, made) ==
    IF ~made.ok THEN SplitThrown(r1, made.fs)
    ELSE SplitIndexWritten(r1, parsed_collection, full_output_path,
             writeCollectionIndex(made.fs, full_output_path,
                 createCollectionIndex(parsed_collection.info,
                                       parsed_collection.metadata,
                                       parsed_collection.structure)))

\* execute from the overwrite check on
SplitInto(f, r1, parsed_collection, full_output_path, options) ==
    IF pathExists(f, full_output_path)
       /\ ~(options.overwrite \/ options.dry_run)
       /\ ~promptOverwrite(full_output_path)
    THEN [result |-> [r1 EXCEPT !.errors = <<Message("Operation cancelled by user", <<>>)>>],
          fs |-> f]
    ELSE IF options.dry_run
    THEN [result |-> performDryRun(parsed_collection, full_output_path), fs |-> f]
    ELSE SplitRootCreated(r1, parsed_collection, full_output_path,
                          createDirectory(f, full_output_path))

\* execute after parseCollection: a throw of the parser ends in the catch
\* block before the output directory is determined
SplitAfterParse(f, r0, p, full_output_path, options) ==
    IF p.thrown THEN SplitThrown(r0, f)
    ELSE SplitInto(f, [r0 EXCEPT !.output_directory = full_output_path],
                   p.parsed, full_output_path, options)

\* execute after a successful validation
SplitValid(f, collection, options, validation, full_output_path) ==
    SplitAfterParse(f,
                    [InitialSplitResult EXCEPT
                        !.warnings = validation.warnings,
                        !.collection_name = collection.info[1].name[1]],
                    parseCollectionOn(collection, NewParserNames),
                    full_output_path, options)

\* execute after validateCollection
SplitValidated(f, collection, options, validation) ==
    IF ~validation.is_valid
    THEN [result |-> [InitialSplitResult EXCEPT !.errors = validation.errors], fs |-> f]
    ELSE SplitValid(f, collection, options, validation,
             joinPath(OUTPUT_DIR, createSafeDirectoryName(collection.info[1].name[1])))

HasField(data, field) == field \in DOMAIN data
\* data.field, undefined when the record has no such field
OptField(data, field) == IF field \in DOMAIN data THEN data[field] ELSE Absent

\* what execute finds at input_path: no file, a file that does not parse
\* as JSON (CorruptJson), or the document the file holds
NoInputFile == [missing |-> TRUE]
InputExists(input) == ~HasField(input, "missing")
InputParses(input) == ~HasField(input, "corrupt")
InputRead(input) == InputExists(input) /\ InputParses(input)
UnreadableInputs == {NoInputFile, CorruptJson}

\* SplitCommand.execute on an input path holding collection_json: [result, fs]
SplitExecute(f, collection_json, options) ==
    IF ~InputExists(collection_json)
    THEN [result |-> [InitialSplitResult EXCEPT
                        !.errors = <<Message("Input file does not exist", <<>>)>>],
          fs |-> f]
    ELSE IF ~InputParses(collection_json)
    THEN SplitThrown(InitialSplitResult, f)
    ELSE SplitValidated(f, collection_json, options,
                        validateCollection(collection_json))

(***************************************************************************)
(* BuildCommand                                                            *)
(***************************************************************************)
BUILD_OUTPUT == << <<"c","o","l","l","e","c","t","i","o","n">> \o DOT_JSON >>

\* returns [ok, item]: ok = FALSE when readRequestFile throws
processRequest(f, request_path) ==
    LET read == readRequestFile(f, request_path)
        request_data == read.data
    IN [ok |-> read.ok,
        item |-> [is_object |-> TRUE,
                  name |-> IF HasField(request_data, "name")
                           THEN Some(request_data.name) ELSE Absent,
                  item |-> NoItems,
                  request |-> OptField(request_data, "request"),
                  response |-> OptField(request_data, "response")]]

\* an entry of an items array that is null, undefined or another falsy value
NullItem ==
    [is_null |-> TRUE, is_object |-> FALSE, name |-> Absent, item |-> NoItems,
     request |-> Absent, response |-> Absent]
IsNull(item) == HasField(item, "is_null")

RECURSIVE BuildValidateItems(_, _)
RECURSIVE BuildValidateItemsFrom(_, _, _, _)
BuildValidateItemsFrom(items, path, i, result) ==
    IF i > Len(items) THEN result
    ELSE
      LET item == items[i]
          item_path == ItemPath(path, i - 1)
          has_items == item.item.t = "array"
          has_request == IsPresent(item.request)
          nested == BuildValidateItems(item.item.v, item_path)
          next ==
            IF IsNull(item)
            THEN [result EXCEPT !.errors =
                    Append(@, Message("Item at index is undefined", i - 1))]
            ELSE IF ~TruthyStr(item.name)
            THEN [result EXCEPT !.errors =
                    Append(@, Message("Missing name for item", item_path))]
            ELSE IF ~(has_items \/ has_request)
            THEN [result EXCEPT !.errors =
                    Append(@, Message("Item has neither item nor request field", item_path))]
            ELSE
              LET warned ==
                    IF has_items /\ has_request
                    THEN [result EXCEPT !.warnings =
                            Append(@, Message("Item has both item and request fields", item_path))]
                    ELSE result
              IN IF has_items
                 THEN [warned EXCEPT !.errors = @ \o nested.errors,
                                     !.warnings = @ \o nested.warnings]
                 ELSE warned
      IN BuildValidateItemsFrom(items, path, i + 1, next)

BuildValidateItems(items, path) ==
    BuildValidateItemsFrom(items, path, 1,
                           [is_valid |-> TRUE, errors |-> <<>>, warnings |-> <<>>])

\* a validation of the assembled collection that accepts everything
validateReconstructedCollectionLenient(collection) ==
    [is_valid |-> TRUE, errors |-> <<>>, warnings |-> <<>>]

validateReconstructedCollection(collection) ==
    LET ok == [is_valid |-> TRUE, errors |-> <<>>, warnings |-> <<>>]
        Fail(r, text) == [r EXCEPT !.is_valid = FALSE,
                                   !.errors = Append(@, Message(text, <<>>))]
    IN IF ~IsPresent(collection.info) THEN Fail(ok, "Missing collection info")
       ELSE
         LET info == collection.info[1]
             r1 == IF ~TruthyStr(info.name) THEN Fail(ok, "Missing collection name") ELSE ok
             r2 == IF ~TruthyStr(info.schema) THEN Fail(r1, "Missing collection schema") ELSE r1
             item_validation == BuildValidateItems(collection.item.v, ROOT)
         IN IF collection.item.t # "array"
            THEN Fail(r2, "Collection items must be an array")
            ELSE [is_valid |-> r2.is_valid /\ item_validation.errors = <<>>,
                  errors |-> r2.errors \o item_validation.errors,
                  warnings |-> r2.warnings \o item_validation.warnings]

InitialBuildResult ==
    [success |-> FALSE, collection_name |-> <<>>, output_file |-> <<>>,
     items_processed |-> 0, errors |-> <<>>, warnings |-> <<>>]

(***************************************************************************)
(* Input documents                                                         *)
(***************************************************************************)
GET == <<"g","e","t">>
Get == <<"G","e","t">>
NameSet == {GET, Get}

SCHEMA_V21 == <<"v","2",".","1">>
SCHEMA_V20 == <<"v","2",".","0">>

Node(name, item, request, response) ==
    [is_object |-> TRUE, name |-> name, item |-> item,
     request |-> request, response |-> response]

RequestNode(name, response) == Node(Some(name), NoItems, Some("GET"), response)
FolderNode(name, items) == Node(Some(name), ItemArray(items), Absent, Absent)

\* valid item trees with exactly n nodes, and valid item lists with exactly
\* n nodes, whose requests all carry the optional response field rs
RECURSIVE ValidTrees(_, _)
RECURSIVE ValidForests(_, _)
ValidTrees(n, rs) ==
    (IF n = 1 THEN {RequestNode(nm, rs) : nm \in NameSet} ELSE {})
    \cup {FolderNode(nm, kids) : nm \in NameSet, kids \in ValidForests(n - 1, rs)}

ValidForests(n, rs) ==
    IF n = 0 THEN {<<>>}
    ELSE UNION {{<<t>> \o rest : t \in ValidTrees(k, rs), rest \in ValidForests(n - k, rs)}
                : k \in 1..n}

Collection(name, schema, item, variable) ==
    [is_object |-> TRUE,
     info |-> Some([name |-> name, schema |-> schema]),
     item |-> item,
     variable |-> variable,
     event |-> Absent]

COLLECTION_NAME == <<"T">>

\* documents without any optional field, and documents carrying them
OptionalFields ==
    {[response |-> Absent, variable |-> Absent],
     [response |-> Some(<<"200">>), variable |-> Some(<<"baseUrl">>)]}

ValidDocs ==
    UNION {{Collection(Some(COLLECTION_NAME), Some(SCHEMA_V21), ItemArray(items), o.variable) :
              items \in UNION {ValidForests(n, o.response) : n \in 0..MaxNodes}}
           : o \in OptionalFields}

(***************************************************************************)
(* Initial states                                                          *)
(***************************************************************************)
NoValidation == [is_valid |-> TRUE, errors |-> <<>>, warnings |-> <<>>]

\* parse was not called
NotParsed == [returned |-> FALSE]

\* no function is called on its own
NoCalls ==
    /\ argv = <<>>
    /\ cli_command = NotParsed
    /\ scope_names = {}
    /\ uniquified = <<>>

\* no build is in flight
NoWalk == [pc |-> "idle", stack |-> <<>>]

\* no operation was called
NoSteps ==
    /\ ops = <<>>
    /\ parser_names = NewParserNames
    /\ walk = NoWalk

Init ==
    /\ doc \in ValidDocs
    /\ fs = EmptyFs
    /\ phase = "start"
    /\ split_options = [overwrite |-> FALSE, dry_run |-> FALSE]
    /\ split_result = InitialSplitResult
    /\ build_result = InitialBuildResult
    /\ rebuilt = Absent
    /\ edits = 0
    /\ verdict = NoValidation
    /\ fs_before = EmptyFs
    /\ build_options = [validate |-> FALSE]
    /\ raw_name = <<>>
    /\ sanitized = <<>>
    /\ NoSteps
    /\ NoCalls

CollectionDir == joinPath(OUTPUT_DIR, createSafeDirectoryName(doc.info[1].name[1]))

(***************************************************************************)
(* The validator on candidate documents, valid or not                      *)
(***************************************************************************)
CandidateName == <<"A">>

\* candidate item trees with exactly n nodes: requests, folders, nodes with
\* both fields, nodes with neither, unnamed nodes and non-objects
RECURSIVE CandidateTrees(_)
RECURSIVE CandidateForests(_)
CandidateTrees(n) ==
    (IF n = 1
     THEN {RequestNode(CandidateName, Absent),
           Node(Absent, NoItems, Some("GET"), Absent),
           Node(Some(<<>>), NoItems, Some("GET"), Absent),
           Node(Some(CandidateName), NoItems, Absent, Absent),
           Node(Some(CandidateName), NotAnArray, Some("GET"), Absent),
           [Node(Absent, NoItems, Absent, Absent) EXCEPT !.is_object = FALSE]}
     ELSE {})
    \cup {Node(nm, ItemArray(kids), rq, Absent) :
            nm \in {Absent, Some(CandidateName)},
            rq \in {Absent, Some("GET")},
            kids \in CandidateForests(n - 1)}

CandidateForests(n) ==
    IF n = 0 THEN {<<>>}
    ELSE UNION {{<<t>> \o rest : t \in CandidateTrees(k), rest \in CandidateForests(n - k)}
                : k \in 1..n}

CandidateInfos ==
    {Absent} \cup
    {Some([name |-> nm, schema |-> sc]) :
        nm \in {Absent, Some(<<>>), Some(COLLECTION_NAME)},
        sc \in {Absent, Some(SCHEMA_V21), Some(SCHEMA_V20)}}

CandidateItems ==
    {NoItems, NotAnArray} \cup
    {ItemArray(items) : items \in UNION {CandidateForests(n) : n \in 0..MaxCandidateNodes}}

CandidateDocs ==
    {[is_object |-> TRUE, info |-> info, item |-> item,
      variable |-> Absent, event |-> Absent] :
        info \in CandidateInfos, item \in CandidateItems}
    \cup {[is_object |-> FALSE, info |-> Absent, item |-> NoItems,
           variable |-> Absent, event |-> Absent]}

InitValidate ==
    /\ doc \in CandidateDocs
    /\ fs = EmptyFs
    /\ phase = "start"
    /\ split_options = [overwrite |-> FALSE, dry_run |-> FALSE]
    /\ split_result = InitialSplitResult
    /\ build_result = InitialBuildResult
    /\ rebuilt = Absent
    /\ edits = 0
    /\ verdict = NoValidation
    /\ fs_before = EmptyFs
    /\ build_options = [validate |-> FALSE]
    /\ raw_name = <<>>
    /\ sanitized = <<>>
    /\ NoSteps
    /\ NoCalls

Validate ==
    /\ phase = "start"
    /\ verdict' = validateCollection(doc)
    /\ phase' = "validated"
    /\ UNCHANGED <<doc, fs, split_options, split_result, build_result, rebuilt, edits,
                   fs_before, build_options, raw_name, sanitized>>
    /\ UNCHANGED stepVars
    /\ UNCHANGED callVars

NextValidate == Validate

SpecValidate == InitValidate /\ [][NextValidate]_vars

(***************************************************************************)
(* The case-preserving sanitizer applied to a display name, and applied    *)
(* again to its own result                                                 *)
(***************************************************************************)
SanitizerAlphabet == {"a", "1", " ", ".", "/", "\t", "U+0001"}

NameInputs == UNION {[1..n -> SanitizerAlphabet] : n \in 0..MaxNameLen}

\* the state of every part of the program that takes no part here
Idle ==
    /\ fs = EmptyFs
    /\ phase = "start"
    /\ split_options = [overwrite |-> FALSE, dry_run |-> FALSE]
    /\ split_result = InitialSplitResult
    /\ build_result = InitialBuildResult
    /\ rebuilt = Absent
    /\ edits = 0
    /\ verdict = NoValidation
    /\ fs_before = EmptyFs
    /\ build_options = [validate |-> FALSE]
    /\ NoSteps
    /\ NoCalls

InitSanitize ==
    /\ raw_name \in NameInputs
    /\ sanitized = <<>>
    /\ doc = Collection(Some(COLLECTION_NAME), Some(SCHEMA_V21), ItemArray(<<>>), Absent)
    /\ Idle

\* sanitizeOriginalName called on the name, then on its own last result
SanitizeOriginal ==
    /\ Len(sanitized) < MaxApplications
    /\ sanitized' = Append(sanitized,
                           sanitizeOriginalName(IF sanitized = <<>> THEN raw_name
                                                ELSE sanitized[Len(sanitized)]))
    /\ UNCHANGED <<doc, fs, phase, split_options, split_result, build_result,
                   rebuilt, edits, verdict, fs_before, build_options, raw_name>>
    /\ UNCHANGED stepVars
    /\ UNCHANGED callVars

NextSanitize == SanitizeOriginal

SpecSanitize == InitSanitize /\ [][NextSanitize]_vars

(***************************************************************************)
(* Split of any candidate document, valid or not, into an output location  *)
(* that is empty or holds the output of an earlier split                   *)
(***************************************************************************)
PreviousDoc ==
    Collection(Some(COLLECTION_NAME), Some(SCHEMA_V21),
               ItemArray(<<RequestNode(GET, Absent)>>), Absent)

PreviousOutput ==
    SplitExecute(EmptyFs, PreviousDoc, [overwrite |-> FALSE, dry_run |-> FALSE]).fs

InitSplit ==
    /\ doc \in CandidateDocs
    /\ fs \in {EmptyFs, PreviousOutput}
    /\ fs_before = fs
    /\ phase = "start"
    /\ split_options = [overwrite |-> FALSE, dry_run |-> FALSE]
    /\ split_result = InitialSplitResult
    /\ build_result = InitialBuildResult
    /\ rebuilt = Absent
    /\ edits = 0
    /\ verdict = NoValidation
    /\ build_options = [validate |-> FALSE]
    /\ raw_name = <<>>
    /\ sanitized = <<>>
    /\ NoSteps
    /\ NoCalls

(***************************************************************************)
(* Build of a directory as a user may have written or edited it: the root  *)
(* may be missing, a file, or lack a readable index; entries may be        *)
(* missing, unreadable, unnamed or without a request payload               *)
(***************************************************************************)
PackedRoot == joinPath(OUTPUT_DIR, createSafeDirectoryName(COLLECTION_NAME))

R_JSON == <<"r">> \o DOT_JSON          \* a request file
G_JSON == <<"g">> \o DOT_JSON          \* an entry that is never on disk
F_DIR == <<"f">>                       \* a folder

\* the file system holding the directories dirs and the files of the
\* function files (path -> JSON value), with every directory above them
MakeFs(dirs, files) ==
    LET above == UNION {Prefixes(d) : d \in dirs \cup {dirname(q) : q \in DOMAIN files}}
    IN [q \in above \cup DOMAIN files \cup {<<>>} |->
          IF q \in DOMAIN files THEN FileEntry(files[q]) ELSE DirEntry]

NoFiles == [q \in {} |-> CorruptJson]

PackedRequest(name) ==
    [meta |-> [type |-> "request", folder_path |-> <<>>],
     name |-> name, request |-> Some("GET"), response |-> Absent]

\* what a request file may hold: a request, a record without the request
\* payload, a record without a name, or text that is not JSON
PackedRequestFiles ==
    {PackedRequest(<<"R">>),
     [PackedRequest(<<"R">>) EXCEPT !.request = Absent],
     [meta |-> [type |-> "request", folder_path |-> <<>>], request |-> Some("GET")],
     CorruptJson}

PackedFolderIndexes(orders) ==
    {[meta |-> [type |-> "folder", parent_path |-> <<>>], name |-> <<"F">>, order |-> o]
        : o \in orders}
    \cup {[meta |-> [type |-> "folder", parent_path |-> <<>>], order |-> o] : o \in orders}

PackedCollectionIndexes(orders) ==
    {[meta |-> [type |-> "collection"],
      info |-> [name |-> nm, schema |-> Some(SCHEMA_V21)],
      variable |-> Some(<<>>), event |-> Some(<<>>), order |-> o]
        : nm \in {Some(COLLECTION_NAME), Absent}, o \in orders}

\* one optional file: no file, or the file with one of the contents
FileChoices(path, contents) ==
    {NoFiles} \cup {[q \in {path} |-> c] : c \in contents}

\* the folder f of the root: absent, or a directory with an index and an
\* optional request file
PackedFolders(orders) ==
    {[dirs |-> {}, files |-> NoFiles]}
    \cup {[dirs |-> {joinPath(PackedRoot, F_DIR)},
            files |-> [q \in DOMAIN child \cup {joinPath(joinPath(PackedRoot, F_DIR), INDEX_JSON)} |->
                         IF q \in DOMAIN child THEN child[q] ELSE index]]
           : index \in PackedFolderIndexes(orders),
             child \in FileChoices(joinPath(joinPath(PackedRoot, F_DIR), R_JSON),
                                    PackedRequestFiles \ {CorruptJson})}

\* directories with a readable root index
PackedTrees(root_orders, folder_orders) ==
    {MakeFs({PackedRoot} \cup folder.dirs,
            [q \in {joinPath(PackedRoot, INDEX_JSON)} \cup DOMAIN leaf \cup DOMAIN folder.files |->
                IF q \in DOMAIN leaf THEN leaf[q]
                ELSE IF q \in DOMAIN folder.files THEN folder.files[q]
                ELSE index])
       : index \in PackedCollectionIndexes(root_orders),
         leaf \in FileChoices(joinPath(PackedRoot, R_JSON), PackedRequestFiles),
         folder \in PackedFolders(folder_orders)}

\* inputs that fail a precondition of build: no such path, a file, a
\* directory without index.json, an index.json that is not JSON
UnfitInputs ==
    {EmptyFs,
     MakeFs({OUTPUT_DIR}, [q \in {PackedRoot} |-> PackedRequest(<<"R">>)]),
     MakeFs({PackedRoot}, NoFiles),
     MakeFs({PackedRoot}, [q \in {joinPath(PackedRoot, R_JSON)} |-> PackedRequest(<<"R">>)]),
     MakeFs({PackedRoot}, [q \in {joinPath(PackedRoot, INDEX_JSON)} |-> CorruptJson])}

PlainRootOrders == {<<>>, <<R_JSON>>, <<F_DIR>>, <<F_DIR, R_JSON>>, <<G_JSON, R_JSON, F_DIR>>}
PlainFolderOrders == {<<>>, <<R_JSON>>, <<G_JSON, R_JSON>>}

PackedInputs == UnfitInputs \cup PackedTrees(PlainRootOrders, PlainFolderOrders)

InitBuild ==
    /\ doc = PreviousDoc
    /\ fs \in PackedInputs
    /\ fs_before = fs
    /\ phase = "split"
    /\ split_options = [overwrite |-> FALSE, dry_run |-> FALSE]
    /\ split_result = InitialSplitResult
    /\ build_result = InitialBuildResult
    /\ build_options = [validate |-> FALSE]
    /\ rebuilt = Absent
    /\ edits = 0
    /\ verdict = NoValidation
    /\ raw_name = <<>>
    /\ sanitized = <<>>
    /\ NoSteps
    /\ NoCalls


(***************************************************************************)
(* Every return path of split and build: candidate documents, valid or     *)
(* not, split into a location that is empty, holds an earlier output, or   *)
(* makes a call fail, and then built                                       *)
(***************************************************************************)
\* locations where a call of split throws: the root directory cannot be
\* created, the collection index cannot be written, a folder's directory
\* cannot be created
BlockedOutputs ==
    {MakeFs({}, [q \in {OUTPUT_DIR} |-> CorruptJson]),
     MakeFs({joinPath(PackedRoot, INDEX_JSON)}, NoFiles),
     MakeFs({}, [q \in {joinPath(PackedRoot, sanitizeOriginalName(CandidateName))}
                   |-> CorruptJson])}

\* a directory whose index lists one entry: a request file of any content,
\* or an entry that is not on disk
ListedOutputs ==
    {MakeFs({PackedRoot},
            [q \in {joinPath(PackedRoot, INDEX_JSON), joinPath(PackedRoot, R_JSON)} |->
                IF q = joinPath(PackedRoot, R_JSON) THEN leaf
                ELSE [PreviousOutput[joinPath(PackedRoot, INDEX_JSON)].data
                         EXCEPT !.order = order]])
       : leaf \in PackedRequestFiles, order \in {<<R_JSON>>, <<G_JSON>>}}

ResultInputs ==
    UnfitInputs \cup BlockedOutputs \cup {PreviousOutput} \cup ListedOutputs

ResultDocs ==
    {[is_object |-> TRUE, info |-> info, item |-> item,
      variable |-> Absent, event |-> Absent] :
        info \in CandidateInfos,
        item \in {NoItems, NotAnArray} \cup
                 {ItemArray(items) :
                     items \in UNION {CandidateForests(n) : n \in 0..MaxResultNodes}}}
    \cup {[is_object |-> FALSE, info |-> Absent, item |-> NoItems,
           variable |-> Absent, event |-> Absent]}

InitResults ==
    /\ doc \in ResultDocs \cup UnreadableInputs
    /\ fs \in ResultInputs
    /\ fs_before = fs
    /\ phase = "start"
    /\ split_options = [overwrite |-> FALSE, dry_run |-> FALSE]
    /\ split_result = InitialSplitResult
    /\ build_result = InitialBuildResult
    /\ rebuilt = Absent
    /\ edits = 0
    /\ verdict = NoValidation
    /\ build_options = [validate |-> FALSE]
    /\ raw_name = <<>>
    /\ sanitized = <<>>
    /\ NoSteps
    /\ NoCalls

\* the document names the directory that build is given
DocNamed ==
    /\ InputRead(doc)
    /\ doc.is_object /\ IsPresent(doc.info) /\ IsPresent(doc.info[1].name)


(***************************************************************************)
(* Split and build of documents whose display names are changed on disk:   *)
(* names with an invalid character, names that begin with a digit          *)
(***************************************************************************)
DisplayNames == {<<"a", "/", "b">>, <<"1">>, GET}

RECURSIVE NamedTrees(_, _)
RECURSIVE NamedForests(_, _)
NamedTrees(n, names) ==
    (IF n = 1 THEN {RequestNode(nm, Absent) : nm \in names} ELSE {})
    \cup {FolderNode(nm, kids) : nm \in names, kids \in NamedForests(n - 1, names)}

NamedForests(n, names) ==
    IF n = 0 THEN {<<>>}
    ELSE UNION {{<<t>> \o rest : t \in NamedTrees(k, names),
                                 rest \in NamedForests(n - k, names)}
                : k \in 1..n}

NamedDocs ==
    {Collection(Some(COLLECTION_NAME), Some(SCHEMA_V21), ItemArray(items), Absent) :
        items \in UNION {NamedForests(n, DisplayNames) : n \in 0..MaxNamedNodes}}

InitNames ==
    /\ doc \in NamedDocs
    /\ raw_name = <<>>
    /\ sanitized = <<>>
    /\ Idle


(***************************************************************************)
(* Split of documents that hold nodes with the display name "index"        *)
(***************************************************************************)
INDEX_NAME == <<"i","n","d","e","x">>
INDEX_NAME_CAPITAL == <<"I","n","d","e","x">>

IndexNames == {INDEX_NAME, INDEX_NAME_CAPITAL, GET}

IndexNamedDocs ==
    {Collection(Some(COLLECTION_NAME), Some(SCHEMA_V21), ItemArray(items), Absent) :
        items \in UNION {NamedForests(n, IndexNames) : n \in 0..MaxNamedNodes}}

InitIndexNames ==
    /\ doc \in IndexNamedDocs
    /\ raw_name = <<>>
    /\ sanitized = <<>>
    /\ Idle


(***************************************************************************)
(* CliParser                                                               *)
(***************************************************************************)
SPLIT_WORD == <<"s","p","l","i","t">>
BUILD_WORD == <<"b","u","i","l","d">>
HELP_WORD == <<"h","e","l","p">>
HELP_FLAG == <<"-","-","h","e","l","p">>
H_FLAG == <<"-","h">>
OUTPUT_FLAG == <<"-","-","o","u","t","p","u","t">>
O_FLAG == <<"-","o">>
OVERWRITE_FLAG == <<"-","-","o","v","e","r","w","r","i","t","e">>
DRY_RUN_FLAG == <<"-","-","d","r","y","-","r","u","n">>
VERBOSE_FLAG == <<"-","-","v","e","r","b","o","s","e">>
VALIDATE_FLAG == <<"-","-","v","a","l","i","d","a","t","e">>

\* the characters of the words that parse and isHelpFlag compare a
\* lower-cased argument with: small letters and the hyphen
WordChars == Lower \cup {"-"}

\* ch.toLowerCase() === small, for small in WordChars. The case tables are
\* the runtime's; in each of them the characters that become a small letter
\* a-z are the letter itself, its capital A-Z and, for k, the Kelvin sign
\* U+212A, and only the hyphen becomes the hyphen
BecomesSmall(ch, small) ==
    ToLowerCase(ch) = small \/ (ch = "U+212A" /\ small = "k")

\* str.toLowerCase() === word, for a word over WordChars: every character
\* of str becomes the character of the word at its place. A character that
\* becomes anything else (capital I with dot above becomes i and a combining
\* dot above) leaves a string that is none of these words
LowerCaseIs(str, word) ==
    CASE \A i \in DOMAIN word : word[i] \in WordChars ->
        /\ Len(str) = Len(word)
        /\ \A i \in DOMAIN str : BecomesSmall(str[i], word[i])

isHelpFlag(flag) ==
    \E word \in {HELP_FLAG, H_FLAG, HELP_WORD} : LowerCaseIs(flag, word)

\* the flag loop of parseSplitCommand: the options, or null for a bad flag
RECURSIVE ParseSplitFlags(_, _, _)
ParseSplitFlags(args, i, options) ==
    IF i > Len(args) THEN Some(options)
    ELSE IF args[i] = <<>> THEN ParseSplitFlags(args, i + 1, options)
    ELSE IF args[i] \in {OUTPUT_FLAG, O_FLAG}
    THEN IF i + 1 > Len(args) \/ args[i + 1] = <<>> THEN Absent
         ELSE ParseSplitFlags(args, i + 2, [options EXCEPT !.output = Some(args[i + 1])])
    ELSE IF args[i] = OVERWRITE_FLAG
    THEN ParseSplitFlags(args, i + 1, [options EXCEPT !.overwrite = TRUE])
    ELSE IF args[i] = DRY_RUN_FLAG
    THEN ParseSplitFlags(args, i + 1, [options EXCEPT !.dry_run = TRUE])
    ELSE IF args[i] = VERBOSE_FLAG
    THEN ParseSplitFlags(args, i + 1, [options EXCEPT !.verbose = TRUE])
    ELSE Absent

\* the flag loop of parseBuildCommand
RECURSIVE ParseBuildFlags(_, _, _)
ParseBuildFlags(args, i, options) ==
    IF i > Len(args) THEN Some(options)
    ELSE IF args[i] = <<>> THEN ParseBuildFlags(args, i + 1, options)
    ELSE IF args[i] \in {OUTPUT_FLAG, O_FLAG}
    THEN IF i + 1 > Len(args) \/ args[i + 1] = <<>> THEN Absent
         ELSE ParseBuildFlags(args, i + 2, [options EXCEPT !.output = Some(args[i + 1])])
    ELSE IF args[i] = VALIDATE_FLAG
    THEN ParseBuildFlags(args, i + 1, [options EXCEPT !.validate = TRUE])
    ELSE IF args[i] = VERBOSE_FLAG
    THEN ParseBuildFlags(args, i + 1, [options EXCEPT !.verbose = TRUE])
    ELSE Absent

\* the ICliCommand built from the parsed flags, null when they are bad
CliCommand(command, input_path, options) ==
    IF IsPresent(options)
    THEN Some([command |-> command, input_path |-> input_path, options |-> options[1]])
    ELSE Absent

parseSplitCommand(args) ==
    IF args = <<>> \/ isHelpFlag(args[1]) THEN Absent
    ELSE IF args[1] = <<>> THEN Absent
    ELSE CliCommand("split", args[1],
             ParseSplitFlags(args, 2, [output |-> Absent, overwrite |-> FALSE,
                                       dry_run |-> FALSE, verbose |-> FALSE]))

parseBuildCommand(args) ==
    IF args = <<>> \/ isHelpFlag(args[1]) THEN Absent
    ELSE CliCommand("build", args[1],
             ParseBuildFlags(args, 2, [output |-> Absent, validate |-> FALSE,
                                       verbose |-> FALSE]))

\* the switch of parse on the lower-cased command word; help, version and
\* every other word return null
CliDispatch(word, rest) ==
    IF LowerCaseIs(word, SPLIT_WORD) THEN parseSplitCommand(rest)
    ELSE IF LowerCaseIs(word, BUILD_WORD) THEN parseBuildCommand(rest)
    ELSE Absent

\* CliParser.parse: the ICliCommand, Absent for null
CliParse(args) ==
    IF Len(args) <= 2 THEN Absent
    ELSE CliDispatch(args[3], SubSeq(args, 4, Len(args)))

INPUT_JSON == <<"i","n",".","j","s","o","n">>

\* the words a command line is made of
CliWords ==
    {SPLIT_WORD, <<"S","P","L","I","T">>, <<"S","p","l","i","t">>,
     <<"S","P","L","U+0130","T">>, BUILD_WORD, <<"B","u","i","l","d">>,
     HELP_WORD, <<"H","E","L","P">>, HELP_FLAG, <<"-","H">>,
     INPUT_JSON, OUTPUT_FLAG, O_FLAG, OVERWRITE_FLAG, DRY_RUN_FLAG,
     VALIDATE_FLAG, VERBOSE_FLAG, <<>>}

CommandLines ==
    {<<<<"n","o","d","e">>, <<"c","a","r","v","e","m","a","n">>>> \o words :
        words \in UNION {[1..n -> CliWords] : n \in 0..MaxArgs}}

InitCli ==
    /\ argv \in CommandLines
    /\ cli_command = NotParsed
    /\ scope_names = {}
    /\ uniquified = <<>>
    /\ raw_name = <<>>
    /\ sanitized = <<>>
    /\ doc = Collection(Some(COLLECTION_NAME), Some(SCHEMA_V21), ItemArray(<<>>), Absent)
    /\ fs = EmptyFs
    /\ phase = "start"
    /\ split_options = [overwrite |-> FALSE, dry_run |-> FALSE]
    /\ split_result = InitialSplitResult
    /\ build_result = InitialBuildResult
    /\ rebuilt = Absent
    /\ edits = 0
    /\ verdict = NoValidation
    /\ fs_before = EmptyFs
    /\ build_options = [validate |-> FALSE]
    /\ NoSteps

\* new CliParser(argv).parse()
Parse ==
    /\ ~cli_command.returned
    /\ cli_command' = [returned |-> TRUE, command |-> CliParse(argv)]
    /\ UNCHANGED <<doc, fs, phase, split_result, build_result, rebuilt, edits,
                   split_options, verdict, fs_before, build_options, raw_name,
                   sanitized, argv, scope_names, uniquified>>
    /\ UNCHANGED stepVars

NextCli == Parse

SpecCli == InitCli /\ [][NextCli]_vars

(***************************************************************************)
(* The case-preserving uniquifier called on a candidate and a scope        *)
(***************************************************************************)
\* base_name + " (N)"
Suffixed(base_name, n) == base_name \o <<" ", "(">> \o IntToStr(n) \o <<")">>

Candidates == {<<"a">>, Suffixed(<<"a">>, 1)}

\* the names a scope may hold: the candidates, their suffixed forms, and a
\* name that has nothing to do with them
ScopeUniverse ==
    Candidates \cup {<<"b">>}
    \cup {Suffixed(c, n) : c \in Candidates, n \in 1..MaxSuffix}

InitUniquify ==
    /\ raw_name \in Candidates
    /\ scope_names \in SUBSET ScopeUniverse
    /\ uniquified = <<>>
    /\ argv = <<>>
    /\ cli_command = NotParsed
    /\ sanitized = <<>>
    /\ doc = Collection(Some(COLLECTION_NAME), Some(SCHEMA_V21), ItemArray(<<>>), Absent)
    /\ fs = EmptyFs
    /\ phase = "start"
    /\ split_options = [overwrite |-> FALSE, dry_run |-> FALSE]
    /\ split_result = InitialSplitResult
    /\ build_result = InitialBuildResult
    /\ rebuilt = Absent
    /\ edits = 0
    /\ verdict = NoValidation
    /\ fs_before = EmptyFs
    /\ build_options = [validate |-> FALSE]
    /\ NoSteps

\* generateUniqueOriginalName(raw_name, scope_names)
Uniquify ==
    /\ uniquified = <<>>
    /\ uniquified' = Some(generateUniqueOriginalName(raw_name, scope_names))
    /\ UNCHANGED <<doc, fs, phase, split_result, build_result, rebuilt, edits,
                   split_options, verdict, fs_before, build_options, raw_name,
                   sanitized, argv, cli_command, scope_names>>
    /\ UNCHANGED stepVars

NextUniquify == Uniquify

SpecUniquify == InitUniquify /\ [][NextUniquify]_vars

(***************************************************************************)
(* Concurrent splits: two execute() calls of the one split_command, which  *)
(* share the one postman_parser and the one file system.  Each await of    *)
(* execute is a step; the code between two awaits runs without             *)
(* interruption.                                                           *)
(***************************************************************************)
\* everything but the file system and the stepwise state
wholeVars == <<doc, phase, split_result, build_result, rebuilt, edits,
               split_options, verdict, fs_before, build_options, raw_name, sanitized,
               argv, cli_command, scope_names, uniquified>>

SECOND_NAME == <<"U">>

ConcurrentOptions == [overwrite |-> TRUE, dry_run |-> FALSE]

FirstDocs ==
    {Collection(Some(COLLECTION_NAME), Some(SCHEMA_V21), ItemArray(items), Absent) :
        items \in UNION {ValidForests(n, Absent) : n \in 0..MaxFirstNodes}}

SecondDocs ==
    {Collection(Some(SECOND_NAME), Some(SCHEMA_V21), ItemArray(items), Absent) :
        items \in UNION {ValidForests(n, Absent) : n \in 0..MaxSecondNodes}}

\* an execute() call that was made and has not run yet
StartOp(d, options) ==
    [pc |-> "start", doc |-> d, options |-> options,
     parsed |-> [items |-> <<>>], path |-> <<>>, result |-> InitialSplitResult,
     acc |-> [files_created |-> 0, folders_created |-> 0,
              errors |-> <<>>, warnings |-> <<>>],
     todo |-> <<>>, met |-> FALSE, log |-> <<>>]

InitConcurrent ==
    /\ \E a \in FirstDocs, b \in SecondDocs :
          /\ ops = <<StartOp(a, ConcurrentOptions), StartOp(b, ConcurrentOptions)>>
          /\ doc = a
    /\ parser_names = NewParserNames
    /\ walk = NoWalk
    /\ fs = EmptyFs
    /\ phase = "start"
    /\ split_options = ConcurrentOptions
    /\ split_result = InitialSplitResult
    /\ build_result = InitialBuildResult
    /\ rebuilt = Absent
    /\ edits = 0
    /\ verdict = NoValidation
    /\ fs_before = EmptyFs
    /\ build_options = [validate |-> FALSE]
    /\ raw_name = <<>>
    /\ sanitized = <<>>
    /\ NoCalls

\* the other call is between two of its awaits
OtherInFlight(o) ==
    \E q \in DOMAIN ops : q # o /\ ops[q].pc \notin {"start", "done"}

\* the items of a folder (or of the collection) still to be processed
ItemTasks(items, parent_path) ==
    [i \in 1..Len(items) |->
        [kind |-> "item", item |-> items[i], parent_path |-> parent_path]]

OpDone(op, result) == [op EXCEPT !.pc = "done", !.result = result]

\* the operation issued the file system call kind on path
Logged(op, kind, path) == [op EXCEPT !.log = Append(@, [op |-> kind, path |-> path])]

\* execute from parseCollection to the await of pathExists(full_output_path)
SplitParsed(o, op, validation, p, full_output_path) ==
    /\ parser_names' = p.existing_names
    /\ ops' = [ops EXCEPT ![o] =
                 IF p.thrown
                 THEN OpDone(op, SplitThrown([InitialSplitResult EXCEPT
                                                 !.warnings = validation.warnings,
                                                 !.collection_name =
                                                     op.doc.info[1].name[1]],
                                             fs).result)
                 ELSE [op EXCEPT !.pc = "check",
                                 !.parsed = p.parsed,
                                 !.path = full_output_path,
                                 !.result = [InitialSplitResult EXCEPT
                                               !.warnings = validation.warnings,
                                               !.collection_name = op.doc.info[1].name[1],
                                               !.output_directory = full_output_path],
                                 !.met = OtherInFlight(o)]]

\* a split that returns the first of the validation errors only
SplitBegunFirstError(o, op, validation) ==
    IF ~validation.is_valid
    THEN /\ ops' = [ops EXCEPT ![o] =
                      OpDone(op, [InitialSplitResult EXCEPT
                                    !.errors = <<validation.errors[1]>>])]
         /\ UNCHANGED parser_names
    ELSE SplitParsed(o, op, validation, parseCollectionOn(op.doc, parser_names),
             joinPath(OUTPUT_DIR, createSafeDirectoryName(op.doc.info[1].name[1])))

\* readJsonFile returned the document: validateCollection's verdict is
\* taken, then parseCollection runs
SplitBegun(o, op, validation) ==
    IF ~validation.is_valid
    THEN /\ ops' = [ops EXCEPT ![o] =
                      OpDone(op, [InitialSplitResult EXCEPT !.errors = validation.errors])]
         /\ UNCHANGED parser_names
    ELSE SplitParsed(o, op, validation, parseCollectionOn(op.doc, parser_names),
             joinPath(OUTPUT_DIR, createSafeDirectoryName(op.doc.info[1].name[1])))

\* await pathExists(input_path)
SplitBegin(o) ==
    /\ ops[o].pc = "start"
    /\ ops' = [ops EXCEPT ![o] =
                 IF ~InputExists(@.doc)
                 THEN OpDone(@, [InitialSplitResult EXCEPT
                                   !.errors = <<Message("Input file does not exist", <<>>)>>])
                 ELSE [@ EXCEPT !.pc = "opened"]]
    /\ UNCHANGED <<fs, parser_names, walk, wholeVars>>

\* await readJsonFile(input_path); validateCollection and parseCollection
\* run on what was read
SplitRead(o) ==
    /\ ops[o].pc = "opened"
    /\ IF ~InputParses(ops[o].doc)
       THEN /\ ops' = [ops EXCEPT ![o] =
                         OpDone(@, SplitThrown(InitialSplitResult, fs).result)]
            /\ UNCHANGED parser_names
       ELSE SplitBegun(o, ops[o], validateCollection(ops[o].doc))
    /\ UNCHANGED <<fs, walk, wholeVars>>

\* await pathExists(full_output_path), the confirmation and the dry run
SplitCheck(o) ==
    /\ ops[o].pc = "check"
    /\ ops' = [ops EXCEPT ![o] =
         IF pathExists(fs, @.path)
            /\ ~(@.options.overwrite \/ @.options.dry_run)
            /\ ~promptOverwrite(@.path)
         THEN OpDone(@, [@.result EXCEPT
                           !.errors = <<Message("Operation cancelled by user", <<>>)>>])
         ELSE IF @.options.dry_run
         THEN OpDone(@, performDryRun(@.parsed, @.path))
         ELSE [@ EXCEPT !.pc = "mkdir"]]
    /\ UNCHANGED <<fs, parser_names, walk, wholeVars>>

SplitRootMade(o, op, made) ==
    /\ fs' = made.fs
    /\ ops' = [ops EXCEPT ![o] =
                 Logged(IF ~made.ok
                        THEN OpDone(op, SplitThrown(op.result, made.fs).result)
                        ELSE [op EXCEPT !.pc = "index"],
                        "mkdir", op.path)]

SplitIndexDirMade(o, op, made, directory_path) ==
    /\ fs' = made.fs
    /\ ops' = [ops EXCEPT ![o] =
                 Logged(IF ~made.ok
                        THEN OpDone(op, SplitThrown([op.result EXCEPT !.folders_created = 1],
                                                    made.fs).result)
                        ELSE [op EXCEPT !.pc = "write"],
                        "mkdir", directory_path)]

\* createCollectionIndex and writeCollectionIndex up to its first await,
\* writeJsonFile's createDirectory(dirname(file_path))
SplitIndexDir(o) ==
    /\ ops[o].pc = "index"
    /\ SplitIndexDirMade(o, ops[o],
          createDirectory(fs, dirname(joinPath(ops[o].path, INDEX_JSON))),
          dirname(joinPath(ops[o].path, INDEX_JSON)))
    /\ UNCHANGED <<parser_names, walk, wholeVars>>

\* await createDirectory(full_output_path)
SplitMakeRoot(o) ==
    /\ ops[o].pc = "mkdir"
    /\ SplitRootMade(o, ops[o], createDirectory(fs, ops[o].path))
    /\ UNCHANGED <<parser_names, walk, wholeVars>>

SplitRootIndexWritten(o, op, wrote) ==
    /\ fs' = wrote.fs
    /\ ops' = [ops EXCEPT ![o] =
                 Logged(IF ~wrote.ok
                        THEN OpDone(op, SplitThrown([op.result EXCEPT !.folders_created = 1],
                                                    wrote.fs).result)
                        ELSE [op EXCEPT !.pc = "items",
                                        !.acc = [files_created |-> 1, folders_created |-> 1,
                                                 errors |-> <<>>,
                                                 warnings |-> op.result.warnings],
                                        !.todo = ItemTasks(op.parsed.items, op.path)],
                        "write", joinPath(op.path, INDEX_JSON))]

\* writeCollectionIndex from writeJsonFile's await of Bun.write
SplitWriteIndex(o) ==
    /\ ops[o].pc = "write"
    /\ SplitRootIndexWritten(o, ops[o],
          bunWrite(fs, joinPath(ops[o].path, INDEX_JSON),
              createCollectionIndex(ops[o].parsed.info, ops[o].parsed.metadata,
                                    ops[o].parsed.structure)))
    /\ UNCHANGED <<parser_names, walk, wholeVars>>

\* processItem, folder branch: await createDirectory(folder_path)
SplitFolderMade(o, op, task, made) ==
    /\ fs' = made.fs
    /\ ops' = [ops EXCEPT ![o] =
                 Logged(IF ~made.ok
                        THEN [op EXCEPT !.acc = ItemFailure(@, task.item),
                                        !.todo = Tail(@)]
                        ELSE [op EXCEPT !.acc.folders_created = @ + 1,
                                        !.todo = <<[task EXCEPT !.kind = "index_dir"]>>
                                                 \o Tail(@)],
                        "mkdir", joinPath(task.parent_path, task.item.sanitized_name))]

\* writeFolderIndex or writeRequestFile up to its first await,
\* writeJsonFile's createDirectory(dirname(file_path)); the write is next
SplitFileDirMade(o, op, task, made, directory_path, next) ==
    /\ fs' = made.fs
    /\ ops' = [ops EXCEPT ![o] =
                 Logged(IF ~made.ok
                        THEN [op EXCEPT !.acc = ItemFailure(@, task.item),
                                        !.todo = Tail(@)]
                        ELSE [op EXCEPT !.todo = <<[task EXCEPT !.kind = next]>>
                                                 \o Tail(@)],
                        "mkdir", directory_path)]

\* a walk that takes the children of a folder after the folder's later
\* siblings
SplitFolderWrittenBreadthFirst(o, op, task, folder_path, wrote) ==
    /\ fs' = wrote.fs
    /\ ops' = [ops EXCEPT ![o] =
                 Logged(IF ~wrote.ok
                        THEN [op EXCEPT !.acc = ItemFailure(@, task.item),
                                        !.todo = Tail(@)]
                        ELSE [op EXCEPT !.acc.files_created = @ + 1,
                                        !.todo = Tail(@) \o
                                            ItemTasks(task.item.children, folder_path)],
                        "write", joinPath(folder_path, INDEX_JSON))]

\* a walk that records the failed index write and goes on with the
\* folder's children
SplitFolderWrittenKeepsGoing(o, op, task, folder_path, wrote) ==
    /\ fs' = wrote.fs
    /\ ops' = [ops EXCEPT ![o] =
                 Logged(IF ~wrote.ok
                        THEN [op EXCEPT !.acc = ItemFailure(@, task.item),
                                        !.todo = ItemTasks(task.item.children, folder_path)
                                                 \o Tail(@)]
                        ELSE [op EXCEPT !.acc.files_created = @ + 1,
                                        !.todo = ItemTasks(task.item.children, folder_path)
                                                 \o Tail(@)],
                        "write", joinPath(folder_path, INDEX_JSON))]

\* processItem, folder branch: writeFolderIndex from writeJsonFile's await
\* of Bun.write, then the children
SplitFolderWritten(o, op, task, folder_path, wrote) ==
    /\ fs' = wrote.fs
    /\ ops' = [ops EXCEPT ![o] =
                 Logged(IF ~wrote.ok
                        THEN [op EXCEPT !.acc = ItemFailure(@, task.item),
                                        !.todo = Tail(@)]
                        ELSE [op EXCEPT !.acc.files_created = @ + 1,
                                        !.todo = ItemTasks(task.item.children, folder_path)
                                                 \o Tail(@)],
                        "write", joinPath(folder_path, INDEX_JSON))]

\* processItem, request branch: writeRequestFile from writeJsonFile's
\* await of Bun.write
SplitRequestStored(o, op, task, wrote) ==
    /\ fs' = wrote.fs
    /\ ops' = [ops EXCEPT ![o] =
                 Logged(IF ~wrote.ok
                        THEN [op EXCEPT !.acc = ItemFailure(@, task.item),
                                        !.todo = Tail(@)]
                        ELSE [op EXCEPT !.acc.files_created = @ + 1,
                                        !.todo = Tail(@)],
                        "write", joinPath(task.parent_path,
                                          sanitizeFileName(task.item.sanitized_name)))]

\* the file that writeRequestFile writes for the task's request
RequestFilePath(task) ==
    joinPath(task.parent_path, sanitizeFileName(task.item.sanitized_name))

SplitTask(o, op, task, folder_path) ==
    IF task.kind = "index_dir"
    THEN SplitFileDirMade(o, op, task,
             createDirectory(fs, dirname(joinPath(folder_path, INDEX_JSON))),
             dirname(joinPath(folder_path, INDEX_JSON)), "index")
    ELSE IF task.kind = "index"
    THEN SplitFolderWritten(o, op, task, folder_path,
             bunWrite(fs, joinPath(folder_path, INDEX_JSON),
                      createFolderIndex(task.item, task.parent_path)))
    ELSE IF task.kind = "file"
    THEN SplitRequestStored(o, op, task,
             bunWrite(fs, RequestFilePath(task),
                      createRequestFile(task.item, task.parent_path)))
    ELSE IF task.item.type = "folder"
    THEN SplitFolderMade(o, op, task, createDirectory(fs, folder_path))
    ELSE IF task.item.type = "request" /\ ~createRequestFileThrows(task.item)
    THEN SplitFileDirMade(o, op, task,
             createDirectory(fs, dirname(RequestFilePath(task))),
             dirname(RequestFilePath(task)), "file")
    ELSE /\ fs' = fs
         /\ ops' = [ops EXCEPT ![o] =
                      IF task.item.type = "request"
                      THEN [op EXCEPT !.acc = ItemFailure(@, task.item),
                                      !.todo = Tail(@)]
                      ELSE [op EXCEPT !.todo = Tail(@)]]

\* the next await of the walk over the parsed items
SplitItemStep(o) ==
    /\ ops[o].pc = "items"
    /\ ops[o].todo # <<>>
    /\ SplitTask(o, ops[o], Head(ops[o].todo),
                 joinPath(Head(ops[o].todo).parent_path,
                          Head(ops[o].todo).item.sanitized_name))
    /\ UNCHANGED <<parser_names, walk, wholeVars>>

\* the loop over parsed_collection.items is over: execute returns
SplitEnd(o) ==
    /\ ops[o].pc = "items"
    /\ ops[o].todo = <<>>
    /\ ops' = [ops EXCEPT ![o] =
                 OpDone(@, SplitFinish(@.result,
                              [fs |-> fs,
                               files_created |-> @.acc.files_created,
                               folders_created |-> @.acc.folders_created,
                               errors |-> @.acc.errors,
                               warnings |-> @.acc.warnings]).result)]
    /\ UNCHANGED <<fs, parser_names, walk, wholeVars>>

NextSplitSteps ==
    \/ \E o \in DOMAIN ops : SplitBegin(o)
    \/ \E o \in DOMAIN ops : SplitRead(o)
    \/ \E o \in DOMAIN ops : SplitCheck(o)
    \/ \E o \in DOMAIN ops : SplitMakeRoot(o)
    \/ \E o \in DOMAIN ops : SplitIndexDir(o)
    \/ \E o \in DOMAIN ops : SplitWriteIndex(o)
    \/ \E o \in DOMAIN ops : SplitItemStep(o)
    \/ \E o \in DOMAIN ops : SplitEnd(o)

SpecConcurrent == InitConcurrent /\ [][NextSplitSteps]_vars

\* the file system calls of writeJsonFile(file_path)
WriteCalls(file_path) ==
    <<[op |-> "mkdir", path |-> dirname(file_path)],
      [op |-> "write", path |-> file_path]>>

\* the file system calls of the depth-first pre-order walk over the parsed
\* items below dir_path: for a folder its directory, then its index record,
\* then its children; for a request its file
RECURSIVE PreOrderCalls(_, _)
PreOrderCalls(items, dir_path) ==
    IF items = <<>> THEN <<>>
    ELSE (IF Head(items).type = "folder"
          THEN <<[op |-> "mkdir", path |-> joinPath(dir_path, Head(items).sanitized_name)]>>
               \o WriteCalls(joinPath(joinPath(dir_path, Head(items).sanitized_name),
                                      INDEX_JSON))
               \o PreOrderCalls(Head(items).children,
                                joinPath(dir_path, Head(items).sanitized_name))
          ELSE WriteCalls(joinPath(dir_path,
                                   sanitizeFileName(Head(items).sanitized_name))))
         \o PreOrderCalls(Tail(items), dir_path)

\* the calls of a whole split of the document into root
WalkOrder(collection, root) ==
    <<[op |-> "mkdir", path |-> root]>>
    \o WriteCalls(joinPath(root, INDEX_JSON))
    \o PreOrderCalls(parseCollection(collection).items, root)

(***************************************************************************)
(* One split alone, taken one await at a time                              *)
(***************************************************************************)
SequentialDocs ==
    {Collection(Some(COLLECTION_NAME), Some(SCHEMA_V21), ItemArray(items), Absent) :
        items \in UNION {ValidForests(n, Absent) : n \in 0..MaxNodes}}

InitSequential ==
    /\ \E a \in SequentialDocs :
          /\ ops = <<StartOp(a, ConcurrentOptions)>>
          /\ doc = a
    /\ parser_names = NewParserNames
    /\ walk = NoWalk
    /\ fs = EmptyFs
    /\ phase = "start"
    /\ split_options = ConcurrentOptions
    /\ split_result = InitialSplitResult
    /\ build_result = InitialBuildResult
    /\ rebuilt = Absent
    /\ edits = 0
    /\ verdict = NoValidation
    /\ fs_before = EmptyFs
    /\ build_options = [validate |-> FALSE]
    /\ raw_name = <<>>
    /\ sanitized = <<>>
    /\ NoCalls

SpecSequential == InitSequential /\ [][NextSplitSteps]_vars

(***************************************************************************)
(* One split whose output location holds an obstacle: a file where a       *)
(* folder's directory is to be created, or a directory where a folder's    *)
(* index record is to be written, so that the call fails                   *)
(***************************************************************************)
ObstacleFor(call) ==
    IF call.op = "mkdir"
    THEN MakeFs({}, [q \in {call.path} |-> CorruptJson])
    ELSE MakeFs({call.path}, NoFiles)

\* the calls of the walk that an obstacle is put in the way of: the
\* directory and the index record of every folder below the root
FolderCalls(calls) ==
    {calls[k] : k \in {j \in 4..Len(calls) :
                          \/ calls[j].op = "mkdir" /\ calls[j].path # calls[1].path
                          \/ calls[j].path[Len(calls[j].path)] = INDEX_JSON}}

\* inputs that execute gives up on before the walk: no file, no JSON, a
\* document that passes validation and that parseCollection throws on
UnfitDocuments ==
    UnreadableInputs \cup
    {Collection(Some(COLLECTION_NAME), Some(SCHEMA_V21),
                ItemArray(<<Node(Some(CandidateName), NotAnArray, Some("GET"), Absent)>>),
                Absent)}

InitFaults ==
    /\ \/ \E a \in SequentialDocs :
             /\ ops = <<StartOp(a, ConcurrentOptions)>>
             /\ doc = a
             /\ fs \in {EmptyFs} \cup
                       {ObstacleFor(call) : call \in FolderCalls(WalkOrder(a, PackedRoot))}
       \/ \E a \in UnfitDocuments :
             /\ ops = <<StartOp(a, ConcurrentOptions)>>
             /\ doc = a
             /\ fs = EmptyFs
    /\ fs_before = fs
    /\ parser_names = NewParserNames
    /\ walk = NoWalk
    /\ phase = "start"
    /\ split_options = ConcurrentOptions
    /\ split_result = InitialSplitResult
    /\ build_result = InitialBuildResult
    /\ rebuilt = Absent
    /\ edits = 0
    /\ verdict = NoValidation
    /\ build_options = [validate |-> FALSE]
    /\ raw_name = <<>>
    /\ sanitized = <<>>
    /\ NoCalls

SpecFaults == InitFaults /\ [][NextSplitSteps]_vars

(***************************************************************************)
(* A build taken one awaited call at a time: the recursion of processItem  *)
(* and processFolder is an explicit stack of the folders being assembled.  *)
(***************************************************************************)

\* orders that name the directory itself or the directory above, or that
\* end their entries in a separator
SLASH == <<"/">>
LoopRootOrders ==
    {<<F_DIR>>, <<R_JSON \o SLASH, F_DIR \o SLASH>>, <<DOT>>, <<DOTDOT>>}
LoopFolderOrders == {<<R_JSON>>, <<DOTDOT>>, <<DOT>>, <<R_JSON, DOTDOT>>}

\* folders nested four deep, f in f in f in the root, the innermost one
\* with a request file
DeepFolder(n) == IF n = 0 THEN PackedRoot
                 ELSE IF n = 1 THEN joinPath(PackedRoot, F_DIR)
                 ELSE IF n = 2 THEN joinPath(joinPath(PackedRoot, F_DIR), F_DIR)
                 ELSE joinPath(joinPath(joinPath(PackedRoot, F_DIR), F_DIR), F_DIR)

DeepIndex(n, middle_order, inner_order) ==
    IF n = 0
    THEN [meta |-> [type |-> "collection"],
          info |-> [name |-> Some(COLLECTION_NAME), schema |-> Some(SCHEMA_V21)],
          variable |-> Some(<<>>), event |-> Some(<<>>), order |-> <<F_DIR>>]
    ELSE [meta |-> [type |-> "folder", parent_path |-> <<>>], name |-> <<"F">>,
          order |-> IF n = 1 THEN <<F_DIR>>
                    ELSE IF n = 2 THEN middle_order ELSE inner_order]

DeepTrees ==
    {MakeFs({DeepFolder(3)},
            [q \in {joinPath(DeepFolder(n), INDEX_JSON) : n \in 0..3}
                      \cup {joinPath(DeepFolder(n), R_JSON) : n \in 2..3} |->
                IF \E n \in 0..3 : q = joinPath(DeepFolder(n), INDEX_JSON)
                THEN DeepIndex(CHOOSE n \in 0..3 : q = joinPath(DeepFolder(n), INDEX_JSON),
                               middle_order, inner_order)
                ELSE PackedRequest(<<"R">>)])
       : middle_order \in {<<F_DIR>>, <<R_JSON, F_DIR>>},
         inner_order \in {<<R_JSON>>, <<R_JSON, G_JSON>>}}

WalkInputs ==
    PackedTrees(LoopRootOrders, LoopFolderOrders)
    \cup DeepTrees
    \cup {EmptyFs, MakeFs({PackedRoot}, NoFiles)}

\* execute was called on input_path and awaits pathExists(input_path)
StartWalk(input_path, options) ==
    [pc |-> "start", at |-> "access", input_path |-> input_path, options |-> options,
     index |-> [meta |-> [type |-> "none"]],
     result |-> InitialBuildResult, stack |-> <<>>, held |-> 0, below |-> 0,
     collection |-> Absent]

InitBuildSteps ==
    /\ doc = PreviousDoc
    /\ fs \in WalkInputs
    /\ fs_before = fs
    /\ \E validate \in BOOLEAN : walk = StartWalk(CollectionDir, [validate |-> validate])
    /\ ops = <<>>
    /\ parser_names = NewParserNames
    /\ phase = "building"
    /\ split_options = [overwrite |-> FALSE, dry_run |-> FALSE]
    /\ split_result = InitialSplitResult
    /\ build_result = InitialBuildResult
    /\ build_options = [validate |-> FALSE]
    /\ rebuilt = Absent
    /\ edits = 0
    /\ verdict = NoValidation
    /\ raw_name = <<>>
    /\ sanitized = <<>>
    /\ NoCalls

WalkDone(w, result) == [w EXCEPT !.pc = "done", !.result = result]

WalkThrown(w, r) ==
    WalkDone(w, [r EXCEPT !.errors = Append(@, Message("Build operation failed", <<>>))])

\* execute returns on a precondition that does not hold
WalkRefused(w, text) ==
    WalkDone(w, [w.result EXCEPT !.errors = <<Message(text, <<>>)>>])

\* a folder being assembled: the entries of order before i are visited
Frame(path, name, order, root) ==
    [path |-> path, name |-> name, order |-> order, i |-> 1,
     children |-> <<>>, root |-> root]

\* execute after validateDirectoryStructure, up to the await of
\* readCollectionIndex
WalkValidated(w, validation) ==
    IF ~validation.is_valid
    THEN WalkDone(w, [w.result EXCEPT !.errors = validation.errors])
    ELSE [w EXCEPT !.pc = "validated", !.result.warnings = validation.warnings]

\* await pathExists(input_path)
BuildOpen ==
    /\ walk.pc = "start"
    /\ walk' = IF ~pathExists(fs, walk.input_path)
               THEN WalkRefused(walk, "Input directory does not exist")
               ELSE [walk EXCEPT !.pc = "is_directory"]
    /\ UNCHANGED <<fs, ops, parser_names, wholeVars>>

\* await isDirectory(input_path), up to validateDirectoryStructure's await
\* of pathExists(directory_path)
BuildIsDirectory ==
    /\ walk.pc = "is_directory"
    /\ walk' = IF ~isDirectory(fs, walk.input_path)
               THEN WalkRefused(walk, "Input path is not a directory")
               ELSE [walk EXCEPT !.pc = "structure", !.at = "access"]
    /\ UNCHANGED <<fs, ops, parser_names, wholeVars>>

\* validateDirectoryStructure: await pathExists(directory_path)
ValidateExists ==
    /\ walk.pc = "structure" /\ walk.at = "access"
    /\ walk' = IF ~pathExists(fs, walk.input_path)
               THEN WalkValidated(walk, StructureInvalid("Directory does not exist"))
               ELSE [walk EXCEPT !.at = "is_directory"]
    /\ UNCHANGED <<fs, ops, parser_names, wholeVars>>

\* validateDirectoryStructure: await isDirectory(directory_path)
ValidateIsDirectory ==
    /\ walk.pc = "structure" /\ walk.at = "is_directory"
    /\ walk' = IF ~isDirectory(fs, walk.input_path)
               THEN WalkValidated(walk, StructureInvalid("Path is not a directory"))
               ELSE [walk EXCEPT !.at = "index"]
    /\ UNCHANGED <<fs, ops, parser_names, wholeVars>>

\* validateDirectoryStructure: await pathExists(index_path)
ValidateHasIndex ==
    /\ walk.pc = "structure" /\ walk.at = "index"
    /\ \E index_path \in {joinPath(walk.input_path, INDEX_JSON)} :
          walk' = IF ~pathExists(fs, index_path)
                  THEN WalkValidated(walk, StructureInvalid("Missing index.json"))
                  ELSE [walk EXCEPT !.at = "read"]
    /\ UNCHANGED <<fs, ops, parser_names, wholeVars>>

\* validateDirectoryStructure: await readJsonFile(index_path); execute
\* takes the validation
ValidateParses ==
    /\ walk.pc = "structure" /\ walk.at = "read"
    /\ \E index_path \in {joinPath(walk.input_path, INDEX_JSON)} :
          walk' = WalkValidated([walk EXCEPT !.at = "access"],
                      IF ~readJsonFile(fs, index_path).ok
                      THEN StructureInvalid("Invalid JSON in index.json")
                      ELSE StructureValid)
    /\ UNCHANGED <<fs, ops, parser_names, wholeVars>>

\* execute after readCollectionIndex, up to the first await of the loop
\* over collection_index.order
WalkIndexRead(w, collection_index) ==
    IF ~HasField(collection_index, "info")
    THEN WalkThrown(w, w.result)
    ELSE IF ~HasField(collection_index, "order")
    THEN WalkThrown(w, [w.result EXCEPT !.collection_name =
                                            OrElse(collection_index.info.name, <<>>)])
    ELSE [w EXCEPT !.pc = "walking",
                   !.index = collection_index,
                   !.result.collection_name = OrElse(collection_index.info.name, <<>>),
                   !.stack = <<Frame(w.input_path, Absent, collection_index.order, TRUE)>>]

\* await readCollectionIndex(input_path)
BuildReadIndex ==
    /\ walk.pc = "validated"
    /\ \E collection_index \in {readCollectionIndex(fs, walk.input_path).data} :
          walk' = WalkIndexRead(walk, collection_index)
    /\ UNCHANGED <<fs, ops, parser_names, wholeVars>>

Top(w) == w.stack[Len(w.stack)]

\* the entry the folder on top of the stack visits next
ChildPath(w) == joinPath(Top(w).path, Top(w).order[Top(w).i])

Visiting(w) ==
    /\ w.pc = "walking"
    /\ Top(w).i <= Len(Top(w).order)

\* the loops over the folder at path that are on the stack, each waiting
\* for the one above it
Visits(w, path) ==
    Cardinality({k \in DOMAIN w.stack : StripSlash(w.stack[k].path) = StripSlash(path)})

\* the latest of them
LastVisit(w, path) ==
    CHOOSE k \in DOMAIN w.stack :
        /\ StripSlash(w.stack[k].path) = StripSlash(path)
        /\ \A j \in (k + 1)..Len(w.stack) :
              StripSlash(w.stack[j].path) # StripSlash(path)

\* the folder is entered while MaxVisits loops over it are waiting: the
\* frames from the latest of them on are in a recursion that comes back to
\* this entry and are not kept; held is where the fresh frame stands,
\* below whether the number of frames not kept is odd
Reentered(w, frame, k) ==
    [w EXCEPT !.stack = Append(SubSeq(@, 1, k - 1), frame),
              !.at = "access",
              !.held = k,
              !.below = (@ + Len(w.stack) - k + 1) % 2]

\* the call of processFolder: the calling loop stays on the stack and is
\* resumed when the folder's own loop returns
Pushed(w, frame) ==
    IF Visits(w, frame.path) < MaxVisits
    THEN [w EXCEPT !.stack = Append(@, frame), !.at = "access"]
    ELSE Reentered(w, frame, LastVisit(w, frame.path))

FolderFrame(path, folder_index) ==
    Frame(path,
          IF HasField(folder_index, "name") THEN Some(folder_index.name) ELSE Absent,
          folder_index.order, FALSE)

\* a loop that puts each item in front of the ones assembled so far
AdvancedUnshift(w, item) ==
    [w EXCEPT !.stack[Len(w.stack)] =
                  [@ EXCEPT !.i = @ + 1,
                            !.children = IF IsPresent(item) THEN <<item[1]>> \o @
                                         ELSE @],
              !.at = "access",
              !.result.items_processed =
                  IF IsPresent(item) /\ Top(w).root THEN @ + 1 ELSE @]

\* the awaited processItem returned the item (null when there is none):
\* the loop takes it and moves on to its next entry
Advanced(w, item) ==
    [w EXCEPT !.stack[Len(w.stack)] =
                  [@ EXCEPT !.i = @ + 1,
                            !.children = IF IsPresent(item) THEN Append(@, item[1])
                                         ELSE @],
              !.at = "access",
              !.result.items_processed =
                  IF IsPresent(item) /\ Top(w).root THEN @ + 1 ELSE @]

\* a root loop that skips a missing entry without a warning
MissedSilent(w, item_name) ==
    [w EXCEPT !.stack[Len(w.stack)].i = @ + 1,
              !.at = "access"]

\* the entry is not on disk: the root loop warns, a folder's loop does not
Missed(w, item_name) ==
    [w EXCEPT !.stack[Len(w.stack)].i = @ + 1,
              !.at = "access",
              !.result.warnings =
                  IF Top(w).root THEN Append(@, Message("Item not found", item_name))
                  ELSE @]

\* the loop over order: await pathExists(item_path), in processFolder
\* pathExists(child_path)
BuildEntryExists ==
    /\ Visiting(walk) /\ walk.at = "access"
    /\ \E child_path \in {ChildPath(walk)} :
          walk' = IF pathExists(fs, child_path)
                  THEN [walk EXCEPT !.at = "is_directory"]
                  ELSE Missed(walk, Top(walk).order[Top(walk).i])
    /\ UNCHANGED <<fs, ops, parser_names, wholeVars>>

\* processItem: await isDirectory(item_path)
BuildEntryIsDirectory ==
    /\ Visiting(walk) /\ walk.at = "is_directory"
    /\ \E child_path \in {ChildPath(walk)} :
          walk' = [walk EXCEPT !.at = IF isDirectory(fs, child_path)
                                      THEN "folder_index" ELSE "is_file"]
    /\ UNCHANGED <<fs, ops, parser_names, wholeVars>>

\* processFolder after readFolderIndex: the folder's own loop begins, or
\* processItem catches what the read or the missing order threw
WalkFolderRead(w, child_path, read) ==
    IF read.ok /\ HasField(read.data, "order")
    THEN Pushed(w, FolderFrame(child_path, read.data))
    ELSE Advanced(w, Absent)

\* processItem -> processFolder: await readFolderIndex(folder_path)
BuildDescend ==
    /\ Visiting(walk) /\ walk.at = "folder_index"
    /\ \E child_path \in {ChildPath(walk)} :
          \E read \in {readFolderIndex(fs, child_path)} :
             walk' = WalkFolderRead(walk, child_path, read)
    /\ UNCHANGED <<fs, ops, parser_names, wholeVars>>

\* processItem: await isFile(item_path), then endsWith('.json')
BuildEntryIsFile ==
    /\ Visiting(walk) /\ walk.at = "is_file"
    /\ \E child_path \in {ChildPath(walk)} :
          walk' = IF /\ isFile(fs, child_path)
                     /\ child_path # <<>>
                     /\ EndsWith(child_path[Len(child_path)], DOT_JSON)
                  THEN [walk EXCEPT !.at = "request"]
                  ELSE Advanced(walk, Absent)
    /\ UNCHANGED <<fs, ops, parser_names, wholeVars>>

\* processItem -> processRequest: await readRequestFile(request_path)
BuildVisit ==
    /\ Visiting(walk) /\ walk.at = "request"
    /\ \E child_path \in {ChildPath(walk)} :
          \E r \in {processRequest(fs, child_path)} :
             walk' = Advanced(walk, IF r.ok THEN Some(r.item) ELSE Absent)
    /\ UNCHANGED <<fs, ops, parser_names, wholeVars>>

FolderItem(frame) ==
    [is_object |-> TRUE, name |-> frame.name, item |-> ItemArray(frame.children),
     request |-> Absent, response |-> Absent]

\* processFolder returns folder_item to the loop that called processItem
BuildReturn ==
    /\ walk.pc = "walking"
    /\ Top(walk).i > Len(Top(walk).order)
    /\ ~Top(walk).root
    /\ walk' = Advanced([walk EXCEPT !.stack = SubSeq(@, 1, Len(@) - 1)],
                        Some(FolderItem(Top(walk))))
    /\ UNCHANGED <<fs, ops, parser_names, wholeVars>>

\* execute after writeJsonFile
WalkWritten(w, wrote) ==
    /\ fs' = wrote.fs
    /\ walk' = WalkDone(w, IF ~wrote.ok
                           THEN [w.result EXCEPT !.errors =
                                   Append(@, Message("Build operation failed", <<>>))]
                           ELSE [w.result EXCEPT !.success = w.result.errors = <<>>])

\* writeJsonFile after createDirectory(dirname(file_path)), up to the await
\* of Bun.write
WalkDirMade(w, r3, collection, made) ==
    /\ fs' = made.fs
    /\ walk' = [(IF ~made.ok THEN WalkThrown(w, r3)
                 ELSE [w EXCEPT !.pc = "writing", !.result = r3])
                  EXCEPT !.collection = Some(collection)]

\* execute after validateReconstructedCollection, up to the first await of
\* writeJsonFile
WalkChecked(w, r2, collection, validation_result) ==
    IF w.options.validate /\ ~validation_result.is_valid
    THEN /\ fs' = fs
         /\ walk' = [WalkDone(w, [r2 EXCEPT !.errors = validation_result.errors])
                       EXCEPT !.collection = Some(collection)]
    ELSE WalkDirMade(w,
             IF w.options.validate
             THEN [r2 EXCEPT !.warnings = @ \o validation_result.warnings]
             ELSE r2,
             collection, createDirectory(fs, dirname(BUILD_OUTPUT)))

\* execute after the loop over collection_index.order
WalkAssembled(w, collection) ==
    WalkChecked(w, [w.result EXCEPT !.output_file = BUILD_OUTPUT], collection,
                validateReconstructedCollection(collection))

\* the loop over collection_index.order is over: validate, then
\* writeJsonFile's await of createDirectory(dirname(file_path))
BuildFinish ==
    /\ walk.pc = "walking"
    /\ Top(walk).root
    /\ Top(walk).i > Len(Top(walk).order)
    /\ WalkAssembled(walk,
          [is_object |-> TRUE,
           info |-> Some(walk.index.info),
           item |-> ItemArray(Top(walk).children),
           variable |-> OptField(walk.index, "variable"),
           event |-> OptField(walk.index, "event")])
    /\ UNCHANGED <<ops, parser_names, wholeVars>>

\* writeJsonFile: await Bun.write(file_path, json_content); execute returns
BuildWrite ==
    /\ walk.pc = "writing"
    /\ WalkWritten(walk, bunWrite(fs, BUILD_OUTPUT, walk.collection[1]))
    /\ UNCHANGED <<ops, parser_names, wholeVars>>

NextBuildSteps ==
    \/ BuildOpen
    \/ BuildIsDirectory
    \/ ValidateExists
    \/ ValidateIsDirectory
    \/ ValidateHasIndex
    \/ ValidateParses
    \/ BuildReadIndex
    \/ BuildEntryExists
    \/ BuildEntryIsDirectory
    \/ BuildDescend
    \/ BuildEntryIsFile
    \/ BuildVisit
    \/ BuildReturn
    \/ BuildFinish
    \/ BuildWrite

\* the event loop runs every continuation that is ready
SpecBuildSteps ==
    InitBuildSteps /\ [][NextBuildSteps]_vars /\ WF_vars(NextBuildSteps)

(***************************************************************************)
(* The state machine: a document is split, the user may remove entries of  *)
(* the directory tree, and the tree is built back.  Each operation runs    *)
(* one awaited call at a time.                                             *)
(***************************************************************************)
\* the command handler calls split_command.execute(input_path, options),
\* which runs up to its first await
SplitCall(options) ==
    /\ phase = "start"
    /\ ops' = <<StartOp(doc, options)>>
    /\ split_options' = options
    /\ fs_before' = fs
    /\ phase' = "splitting"
    /\ UNCHANGED <<doc, fs, split_result, build_result, rebuilt, edits, verdict,
                   build_options, raw_name, sanitized, parser_names, walk>>
    /\ UNCHANGED callVars

\* the handler's await of execute is over: it holds the SplitResult
SplitResolve ==
    /\ phase = "splitting"
    /\ ops[1].pc = "done"
    /\ split_result' = ops[1].result
    /\ phase' = "split"
    /\ ops' = <<>>
    /\ UNCHANGED <<doc, fs, build_result, rebuilt, edits, split_options, verdict,
                   fs_before, build_options, raw_name, sanitized, parser_names, walk>>
    /\ UNCHANGED callVars

\* the user deletes a request file or a whole folder of the output
UserRemove(path) ==
    /\ edits < MaxEdits
    /\ path \in DOMAIN fs
    /\ IsPrefix(CollectionDir, path) /\ path # CollectionDir
    /\ path[Len(path)] # INDEX_JSON
    /\ fs' = [q \in {q \in DOMAIN fs : ~IsPrefix(path, q)} |-> fs[q]]
    /\ edits' = edits + 1
    /\ UNCHANGED <<doc, phase, split_options, split_result, build_result, rebuilt,
                   verdict, fs_before, build_options, raw_name, sanitized>>
    /\ UNCHANGED stepVars
    /\ UNCHANGED callVars

\* the handler calls build_command.execute(input_path, options), which
\* runs up to its first await
BuildCall(options) ==
    /\ phase = "split"
    /\ walk' = StartWalk(CollectionDir, options)
    /\ build_options' = options
    /\ fs_before' = fs
    /\ phase' = "building"
    /\ UNCHANGED <<doc, fs, split_options, split_result, build_result, rebuilt,
                   edits, verdict, raw_name, sanitized, ops, parser_names>>
    /\ UNCHANGED callVars

\* the handler's await of execute is over: it holds the BuildResult
BuildResolve ==
    /\ phase = "building"
    /\ walk.pc = "done"
    /\ build_result' = walk.result
    /\ rebuilt' = walk.collection
    /\ phase' = "built"
    /\ UNCHANGED <<doc, fs, split_options, split_result, edits, verdict, fs_before,
                   build_options, raw_name, sanitized>>
    /\ UNCHANGED stepVars
    /\ UNCHANGED callVars

NextSplit ==
    \/ \E overwrite \in BOOLEAN, dry_run \in BOOLEAN :
          SplitCall([overwrite |-> overwrite, dry_run |-> dry_run])
    \/ NextSplitSteps
    \/ SplitResolve

NextBuild ==
    \/ \E validate \in BOOLEAN : BuildCall([validate |-> validate])
    \/ NextBuildSteps
    \/ BuildResolve

\* no operation is in flight: the output directory (split) or input
\* directory (build) belongs to the operation while it runs, and to the
\* user between the two
BetweenOperations == phase = "split"

Next ==
    \/ NextSplit
    \/ BetweenOperations /\ \E path \in DOMAIN fs : UserRemove(path)
    \/ NextBuild

Spec == Init /\ [][Next]_vars

SpecSplit == InitSplit /\ [][NextSplit]_vars

SpecBuild == InitBuild /\ [][NextBuild]_vars

NextResults ==
    \/ NextSplit
    \/ \E validate \in BOOLEAN : DocNamed /\ BuildCall([validate |-> validate])
    \/ NextBuildSteps
    \/ BuildResolve

SpecResults == InitResults /\ [][NextResults]_vars

SpecNames == InitNames /\ [][Next]_vars

SpecIndexNames == InitIndexNames /\ [][NextSplit]_vars

(***************************************************************************)
(* The same operations with a user who does not wait: an entry may be      *)
(* removed between any two awaited calls of a split or a build             *)
(***************************************************************************)
DisturbedDocs ==
    {Collection(Some(COLLECTION_NAME), Some(SCHEMA_V21), ItemArray(items), Absent) :
        items \in UNION {ValidForests(n, Absent) : n \in 0..MaxDisturbedNodes}}

InitDisturbed ==
    /\ doc \in DisturbedDocs
    /\ raw_name = <<>>
    /\ sanitized = <<>>
    /\ Idle

\* the user deletes the directory of the collection as a whole
UserRemoveAll ==
    /\ edits < MaxEdits
    /\ CollectionDir \in DOMAIN fs
    /\ fs' = [q \in {q \in DOMAIN fs : ~IsPrefix(CollectionDir, q)} |-> fs[q]]
    /\ edits' = edits + 1
    /\ UNCHANGED <<doc, phase, split_options, split_result, build_result, rebuilt,
                   verdict, fs_before, build_options, raw_name, sanitized>>
    /\ UNCHANGED stepVars
    /\ UNCHANGED callVars

NextDisturbed ==
    \/ NextSplit
    \/ \E path \in DOMAIN fs : UserRemove(path)
    \/ UserRemoveAll
    \/ NextBuild

SpecDisturbed == InitDisturbed /\ [][NextDisturbed]_vars

(***************************************************************************)
(* Properties                                                              *)
(***************************************************************************)
\* a split that really wrote the tree has returned successfully and the
\* directory is still as split left it
SplitDone ==
    /\ phase = "split" /\ edits = 0
    /\ ~split_options.dry_run /\ split_result.success

\* build has run on the untouched output of a successful split
RoundTripDone ==
    /\ phase = "built" /\ edits = 0
    /\ ~split_options.dry_run /\ split_result.success

\* every sibling group of the parsed document with the directory it is
\* written to: the root items and the children of every folder
RECURSIVE Groups(_, _)
Groups(items, dir) ==
    {[dir |-> dir, items |-> items]}
    \cup UNION {Groups(items[i].children, joinPath(dir, items[i].sanitized_name))
                : i \in {j \in DOMAIN items : items[j].type = "folder"}}

SplitGroups == Groups(parseCollection(doc).items, CollectionDir)

BaseName(item) == sanitizeOriginalName(item.original_name)
\* the number of siblings before position i with the same sanitized name
EarlierSame(items, i) ==
    Cardinality({j \in 1..(i - 1) : BaseName(items[j]) = BaseName(items[i])})

IndexOf(dir) == fs[joinPath(dir, INDEX_JSON)].data
HasIndex(dir) ==
    /\ isFile(fs, joinPath(dir, INDEX_JSON))
    /\ HasField(IndexOf(dir), "order")

LeafFilesIn(dir) ==
    {q \in DOMAIN fs : /\ q # <<>> /\ dirname(q) = dir /\ isFile(fs, q)
                       /\ q[Len(q)] # INDEX_JSON}

\* an absent optional list read as the empty list: the comparison below
\* does not distinguish the two
RECURSIVE WithDefaults(_)
WithDefaults(items) ==
    [i \in DOMAIN items |->
        [items[i] EXCEPT !.response = IF IsPresent(items[i].request)
                                      THEN Some(OrElse(@, <<>>)) ELSE @,
                         !.item = [@ EXCEPT !.v = WithDefaults(@)]]]

DocWithDefaults(d) ==
    [d EXCEPT !.variable = Some(OrElse(@, <<>>)),
              !.event = Some(OrElse(@, <<>>)),
              !.item = [@ EXCEPT !.v = WithDefaults(@)]]

\* C1: round-trip identity: building the directory that split produced
\* succeeds and yields a collection equal to the input document in names,
\* payloads, metadata and child order at every level (here: up to an absent
\* optional list being read as an empty one).
C1_RoundTripIdentity ==
    RoundTripDone =>
       /\ build_result.success
       /\ IsPresent(rebuilt)
       /\ DocWithDefaults(rebuilt[1]) = DocWithDefaults(doc)

\* C2: scope isolation: a node whose sanitized name is not used by an
\* earlier sibling under the same parent keeps its sanitized name as its
\* on-disk name, whatever names occur under other parents.
C2_ScopeIsolation ==
    SplitDone =>
      \A g \in SplitGroups : \A i \in DOMAIN g.items :
         EarlierSame(g.items, i) = 0
            => g.items[i].sanitized_name = BaseName(g.items[i])

\* the on-disk name the claim assigns to the i-th sibling
ParenthesisedName(items, i) ==
    IF EarlierSame(items, i) = 0 THEN BaseName(items[i])
    ELSE BaseName(items[i]) \o <<" ", "(">>
         \o IntToStr(EarlierSame(items, i)) \o <<")">>

ExpectedEntry(items, i) ==
    IF items[i].type = "folder" THEN ParenthesisedName(items, i)
    ELSE ParenthesisedName(items, i) \o DOT_JSON

\* two nodes under different parents share a sanitized name
CrossScopeCollision ==
    \E g \in SplitGroups, h \in SplitGroups :
       /\ g # h
       /\ \E i \in DOMAIN g.items, j \in DOMAIN h.items :
             BaseName(g.items[i]) = BaseName(h.items[j])

\* some sibling has the sanitized name of an earlier sibling
HasSiblingDuplicates(items) ==
    \E i \in DOMAIN items : EarlierSame(items, i) > 0

\* C3: sibling duplicates: when same-named nodes are siblings only, the first
\* sibling named N is stored as N, the i-th later one as "N (i)"; leaves are
\* stored with ".json" appended and the parent's order list names all of them
\* in input order.
C3_SiblingDuplicates ==
    (SplitDone /\ ~CrossScopeCollision) =>
      \A g \in {h \in SplitGroups : HasSiblingDuplicates(h.items)} :
         /\ HasIndex(g.dir)
         /\ IndexOf(g.dir).order = [i \in DOMAIN g.items |-> ExpectedEntry(g.items, i)]
         /\ \A i \in DOMAIN g.items :
               pathExists(fs, joinPath(g.dir, ExpectedEntry(g.items, i)))

\* the entries of a directory's order list that exist on disk, in order
ExistingEntries(dir) ==
    SelectSeq(IndexOf(dir).order, LAMBDA n : pathExists(fs, joinPath(dir, n)))

\* the display name stored for an on-disk entry
StoredName(path) ==
    IF isDirectory(fs, path) THEN IndexOf(path).name ELSE fs[path].data.name

\* the rebuilt items are the existing entries of dir's order list, one item
\* per entry and in that sequence, at this level and below
RECURSIVE FollowsOrder(_, _)
FollowsOrder(items, dir) ==
    LET existing == ExistingEntries(dir)
    IN /\ Len(items) = Len(existing)
       /\ \A i \in DOMAIN items :
             LET path == joinPath(dir, existing[i])
             IN /\ items[i].name = Some(StoredName(path))
                /\ (items[i].item.t = "array") = isDirectory(fs, path)
                /\ isDirectory(fs, path) => FollowsOrder(items[i].item.v, path)

\* build went through the order list of the root index
BuildAssembled == phase = "built" /\ IsPresent(rebuilt)

\* C4: order preservation in build: for the root and for every folder the
\* rebuilt item array lists exactly the existing entries of the directory's
\* order list, in the sequence of that list.
C4_OrderPreserved ==
    BuildAssembled => FollowsOrder(rebuilt[1].item.v, CollectionDir)

\* C4 witness: build assembled two root children in an order that an
\* alphabetical directory listing would not give.
C4_Witness ==
    /\ BuildAssembled
    /\ Len(rebuilt[1].item.v) = 2
    /\ rebuilt[1].item.v[1].name = Some(GET)
    /\ rebuilt[1].item.v[2].name = Some(Get)

\* C5: no dangling references after split: in the root directory and in
\* every folder directory each name of the index record's order list exists
\* in that directory, as a subdirectory for a folder and as a file for a
\* request.
C5_NoDanglingReferences ==
    SplitDone =>
      \A g \in SplitGroups :
         /\ HasIndex(g.dir)
         /\ Len(IndexOf(g.dir).order) = Len(g.items)
         /\ \A i \in DOMAIN g.items :
               LET path == joinPath(g.dir, IndexOf(g.dir).order[i])
               IN IF g.items[i].type = "folder"
                  THEN isDirectory(fs, path)
                  ELSE isFile(fs, path)

\* C6: on-disk names are unique within a directory: every directory holds as
\* many request files as the node has request children, and the file written
\* for each request child is still there.
C6_UniqueOnDiskNames ==
    SplitDone =>
      \A g \in SplitGroups :
         LET requests == {i \in DOMAIN g.items : g.items[i].type = "request"}
         IN /\ Cardinality(LeafFilesIn(g.dir)) = Cardinality(requests)
            /\ \A i \in requests :
                  \E q \in LeafFilesIn(g.dir) :
                     fs[q].data = createRequestFile(g.items[i], g.dir)

\* C7: missing-entry tolerance: when the root index's order names an entry
\* that does not exist, build records a warning with that entry's name, omits
\* the slot, keeps the other slots, and still succeeds.
C7_MissingEntryTolerated ==
    BuildAssembled =>
      \A n \in Range(IndexOf(CollectionDir).order) :
         ~pathExists(fs, joinPath(CollectionDir, n)) =>
            /\ Message("Item not found", n) \in Range(build_result.warnings)
            /\ Len(rebuilt[1].item.v) = Len(ExistingEntries(CollectionDir))
            /\ build_result.success

\* C7 witness: the user removed an entry the root index names; build kept
\* another slot and succeeded.
C7_Witness ==
    /\ BuildAssembled /\ edits = 1
    /\ \E n \in Range(IndexOf(CollectionDir).order) :
          ~pathExists(fs, joinPath(CollectionDir, n))
    /\ Len(rebuilt[1].item.v) >= 1
    /\ build_result.success

\* the folder directories build descends into from dir
RECURSIVE VisitedFolders(_)
VisitedFolders(dir) ==
    LET subs == {joinPath(dir, n) : n \in Range(ExistingEntries(dir))}
                \cap {q \in DOMAIN fs : isDirectory(fs, q)}
    IN subs \cup UNION {VisitedFolders(d) : d \in subs}

\* the slots <<dir, i>> of visited folders whose entry does not exist
MissingFolderSlots ==
    {s \in UNION {{<<d, i>> : i \in DOMAIN IndexOf(d).order}
                  : d \in VisitedFolders(CollectionDir)} :
        ~pathExists(fs, joinPath(s[1], IndexOf(s[1]).order[s[2]]))}

\* C8: omissions are always reported: for every folder index, at any depth,
\* whose order names an entry that does not exist, the build result's
\* warnings contain an entry naming that child.
C8_NestedOmissionsReported ==
    BuildAssembled =>
      \A s \in MissingFolderSlots :
         \E k \in DOMAIN build_result.warnings :
            build_result.warnings[k].arg = IndexOf(s[1]).order[s[2]]

InfoNameError == Message("Missing or invalid info.name field", <<>>)
InfoSchemaError == Message("Missing or invalid info.schema field", <<>>)

\* the document has an info block with neither a valid name nor a valid schema
LacksNameAndSchema ==
    /\ doc.is_object /\ IsPresent(doc.info)
    /\ ~TruthyStr(doc.info[1].name)
    /\ ~TruthyStr(doc.info[1].schema)

\* C9: validation completeness: a document whose info block lacks both a valid
\* name and a valid schema is invalid and its error list holds two distinct
\* entries, one for info.name and one for info.schema.
C9_BothInfoErrors ==
    (phase = "validated" /\ LacksNameAndSchema) =>
       /\ ~verdict.is_valid
       /\ \E i \in DOMAIN verdict.errors, j \in DOMAIN verdict.errors :
             /\ i # j
             /\ verdict.errors[i] = InfoNameError
             /\ verdict.errors[j] = InfoSchemaError

\* C9 witness: such a document, with an item array, has been validated.
C9_Witness ==
    /\ phase = "validated" /\ LacksNameAndSchema
    /\ doc.item.t = "array"

\* the entries the rules call for at the item nodes, at every depth
RECURSIVE NodeViolations(_, _)
NodeViolations(items, path) ==
    UNION {
      LET item == items[i]
          item_path == ItemPath(path, i - 1)
      IN (IF ~item.is_object
          THEN {Message("Invalid item: not an object", item_path)}
          ELSE IF ~TruthyStr(item.name)
          THEN {Message("Invalid item: missing or invalid name", item_path)}
          ELSE IF item.item.t # "array" /\ ~IsPresent(item.request)
          THEN {Message("Item has neither item nor request field", item_path)}
          ELSE {})
         \cup (IF item.is_object /\ item.item.t = "array"
               THEN NodeViolations(item.item.v, item_path) ELSE {})
      : i \in DOMAIN items}

\* the entries the rules call for in a candidate document
Violations(d) ==
    (IF ~IsPresent(d.info) THEN {Message("Missing required info field", <<>>)}
     ELSE (IF ~TruthyStr(d.info[1].name) THEN {InfoNameError} ELSE {})
          \cup (IF ~TruthyStr(d.info[1].schema) THEN {InfoSchemaError} ELSE {}))
    \cup (IF d.item.t = "absent" THEN {Message("Missing required item field", <<>>)}
          ELSE IF d.item.t # "array" THEN {Message("item field must be an array", <<>>)}
          ELSE NodeViolations(d.item.v, ROOT))

\* C10: the validator collects rather than short-circuits: every violated
\* rule (root identity block, item-array shape, each unnamed or
\* unclassifiable node at any depth) has its own entry in the errors.
C10_AllViolationsReported ==
    (phase = "validated" /\ doc.is_object) =>
       Violations(doc) \subseteq Range(verdict.errors)

\* C11: idempotent sanitization: applying sanitizeOriginalName to its own
\* result gives that result again.
C11_SanitizeIdempotent ==
    \A i \in 2..Len(sanitized) : sanitized[i] = sanitized[1]

\* a usable name: non-empty, not made only of dots, not beginning with a
\* digit, without any invalid or control character
UsableName(name) ==
    /\ name # <<>>
    /\ \E i \in DOMAIN name : name[i] # "."
    /\ name[1] \notin Digits
    /\ \A i \in DOMAIN name : name[i] \notin InvalidChars \cup ControlChars

\* C19: the sanitizer always returns a usable name: whatever the input,
\* sanitizeOriginalName returns a non-empty string that is not made only of
\* dots, does not begin with a digit and holds no invalid or control character.
C19_SanitizerUsable ==
    \A i \in DOMAIN sanitized : UsableName(sanitized[i])

\* C19 witness: a name made of an invalid character, a dot and a control
\* character has been sanitized to the fallback name, and a name with a
\* leading digit behind an invalid character has been prefixed.
C19_Witness ==
    /\ sanitized # <<>>
    /\ \/ raw_name = <<"/", ".", "\t">> /\ sanitized[1] = UNNAMED
       \/ raw_name = <<"/", "1", "a">> /\ sanitized[1] = <<"_", "1", "a">>

\* a split call has returned
SplitReturned == phase = "split"

\* C12: split is gated by validation: when the validation of the input
\* document fails, split returns success = false with the validation errors
\* and the file system is as it was before the call.
C12_SplitGatedByValidation ==
    (SplitReturned /\ ~validateCollection(doc).is_valid) =>
       /\ ~split_result.success
       /\ split_result.errors = validateCollection(doc).errors
       /\ split_result.errors # <<>>
       /\ fs = fs_before

\* C12 witness: a split of an invalid document has returned its errors
\* (the output location was empty, as a split would otherwise have created
\* the directories).
C12_Witness ==
    /\ SplitReturned /\ ~validateCollection(doc).is_valid
    /\ ~split_options.dry_run
    /\ Len(split_result.errors) >= 2
    /\ fs = EmptyFs

\* a dry run leaves the file system as it was, whatever it returns
DryRunLeavesDisk ==
    (SplitReturned /\ split_options.dry_run) => fs = fs_before

\* a document the validator accepts made the parser throw in a dry run
DryRunThrew ==
    /\ SplitReturned /\ split_options.dry_run
    /\ validateCollection(doc).is_valid
    /\ split_result.errors = <<Message("Split operation failed", <<>>)>>

\* C15: a dry run mutates nothing: a split with dry_run = true leaves the
\* file system as it was, whether or not the output path exists already,
\* and on every document the validator accepts it succeeds.
C15_DryRunMutatesNothing ==
    (SplitReturned /\ split_options.dry_run) =>
       /\ fs = fs_before
       /\ validateCollection(doc).is_valid => split_result.success

\* the output directory of the document existed when split was called
OutputExisted ==
    validateCollection(doc).is_valid /\ pathExists(fs_before, CollectionDir)

\* C16: without overwrite a collision is an error: when the output directory
\* exists and split runs with overwrite = false and dry_run = false, split
\* returns success = false with an error and leaves the directory and its
\* contents unchanged.
C16_CollisionIsError ==
    (SplitReturned /\ OutputExisted
       /\ ~split_options.overwrite /\ ~split_options.dry_run) =>
       /\ ~split_result.success
       /\ split_result.errors # <<>>
       /\ fs = fs_before

\* C16 witness: a split of a document with items into the existing output
\* directory, without overwrite, was cancelled.
C16_Witness ==
    /\ SplitReturned /\ OutputExisted
    /\ ~split_options.overwrite /\ ~split_options.dry_run
    /\ doc.item.v # <<>>
    /\ split_result.errors = <<Message("Operation cancelled by user", <<>>)>>

\* a build call has returned
BuildReturned == phase = "built"

\* the input of the last build failed a precondition: the path did not
\* exist, was not a directory, had no index.json, or its index.json did
\* not parse
PreconditionFailed ==
    \/ ~pathExists(fs_before, CollectionDir)
    \/ ~isDirectory(fs_before, CollectionDir)
    \/ ~pathExists(fs_before, joinPath(CollectionDir, INDEX_JSON))
    \/ ~isFile(fs_before, joinPath(CollectionDir, INDEX_JSON))
    \/ fs_before[joinPath(CollectionDir, INDEX_JSON)].data = CorruptJson

\* C13: build preconditions are fatal: when the input path does not exist,
\* is not a directory, has no root index.json or an index.json that is not
\* JSON, build returns success = false with errors, assembles no items and
\* writes no output file.
C13_PreconditionsFatal ==
    (BuildReturned /\ PreconditionFailed) =>
       /\ ~build_result.success
       /\ build_result.errors # <<>>
       /\ ~IsPresent(rebuilt)
       /\ build_result.items_processed = 0
       /\ fs = fs_before

\* C13 witness: build has returned from a directory whose index.json exists
\* but is not JSON.
C13_Witness ==
    /\ BuildReturned
    /\ isFile(fs_before, joinPath(CollectionDir, INDEX_JSON))
    /\ fs_before[joinPath(CollectionDir, INDEX_JSON)].data = CorruptJson
    /\ build_result.errors = <<Message("Invalid JSON in index.json", <<>>)>>

\* the collection assembled by the last build violates the structural
\* contract of the validator
RebuiltViolatesContract ==
    IsPresent(rebuilt) /\ ~validateCollection(rebuilt[1]).is_valid

\* C14: validation after assembly is fatal: when build runs with validate =
\* true and the assembled tree violates the structural contract, build
\* returns success = false with the validation errors and writes no output
\* file.
C14_ValidationFatal ==
    (BuildReturned /\ build_options.validate /\ RebuiltViolatesContract) =>
       /\ ~build_result.success
       /\ build_result.errors # <<>>
       /\ build_result.errors = validateReconstructedCollection(rebuilt[1]).errors
       /\ fs = fs_before

\* C14 witness: every entry the indexes name was there and readable, two
\* items were assembled, and the validation found a node with neither
\* children nor request.
C14_Witness ==
    /\ BuildReturned /\ build_options.validate /\ RebuiltViolatesContract
    /\ build_result.items_processed = 2
    /\ build_result.warnings = <<>>
    /\ \E e \in Range(build_result.errors) :
          e.msg = "Item has neither item nor request field"

\* every node of the list nodes, written by split as the processed items
\* parsed into directory dir, has its display name in the name field of its
\* folder index or of its request file, and every request file of dir holds
\* the display name of a request of the list
RECURSIVE StoresDisplayNames(_, _, _)
StoresDisplayNames(nodes, parsed, dir) ==
    /\ \A i \in DOMAIN nodes :
          IF parsed[i].type = "folder"
          THEN LET folder_path == joinPath(dir, parsed[i].sanitized_name)
               IN /\ HasIndex(folder_path)
                  /\ IndexOf(folder_path).name = nodes[i].name[1]
                  /\ StoresDisplayNames(nodes[i].item.v, parsed[i].children, folder_path)
          ELSE \E q \in LeafFilesIn(dir) :
                  /\ fs[q].data.name = nodes[i].name[1]
                  /\ fs[q].data.request = nodes[i].request
    /\ \A q \in LeafFilesIn(dir) :
          \E i \in DOMAIN nodes :
             parsed[i].type = "request" /\ fs[q].data.name = nodes[i].name[1]

\* every assembled item carries the name stored in the entry it was read
\* from, at this level and below
RECURSIVE ReadsStoredNames(_, _)
ReadsStoredNames(items, dir) ==
    LET existing == ExistingEntries(dir)
    IN /\ Len(items) = Len(existing)
       /\ \A i \in DOMAIN items :
             LET path == joinPath(dir, existing[i])
             IN /\ items[i].name =
                      Some(IF isDirectory(fs_before, path)
                           THEN fs_before[joinPath(path, INDEX_JSON)].data.name
                           ELSE fs_before[path].data.name)
                /\ isDirectory(fs_before, path) => ReadsStoredNames(items[i].item.v, path)

\* C20: stored names are display names: split writes the original display
\* name of every folder and every request into the name field of its folder
\* index or request file, whatever its on-disk name, and build takes the
\* name of every item from that field.
C20_StoredNamesAreDisplayNames ==
    /\ SplitDone =>
          StoresDisplayNames(doc.item.v, parseCollection(doc).items, CollectionDir)
    /\ BuildAssembled => ReadsStoredNames(rebuilt[1].item.v, CollectionDir)

\* C20 witness: two siblings with the display name "a/b", a folder and a
\* request, stored as "ab" and "ab_1.json", have been built back with the
\* name "a/b".
C20_Witness ==
    /\ BuildAssembled /\ edits = 0
    /\ Len(doc.item.v) = 2
    /\ doc.item.v[1].name = Some(<<"a", "/", "b">>)
    /\ doc.item.v[2].name = Some(<<"a", "/", "b">>)
    /\ isDirectory(fs, joinPath(CollectionDir, <<"a", "b">>))
    /\ isFile(fs, joinPath(CollectionDir, <<"a", "b", "_", "1">> \o DOT_JSON))
    /\ Len(rebuilt[1].item.v) = 2
    /\ rebuilt[1].item.v[1].name = Some(<<"a", "/", "b">>)
    /\ rebuilt[1].item.v[2].name = Some(<<"a", "/", "b">>)

\* the first split run alone on an empty disk
FirstAlone == SplitExecute(EmptyFs, ops[1].doc, ConcurrentOptions)
\* the second split run alone on an empty disk
SecondAlone == SplitExecute(EmptyFs, ops[2].doc, ConcurrentOptions)

BothDone == ops # <<>> /\ \A o \in DOMAIN ops : ops[o].pc = "done"

\* the disk holds exactly what the two splits leave when each runs alone
DiskOfBoth(first, second) ==
    /\ DOMAIN fs = DOMAIN first \cup DOMAIN second
    /\ \A q \in DOMAIN first : fs[q] = first[q]
    /\ \A q \in DOMAIN second : fs[q] = second[q]

\* C17: two splits run concurrently into different output directories each
\* return the result, and leave the files, of the same split run alone,
\* whatever the interleaving of their steps
C17_ConcurrentSplitsIndependent ==
    BothDone =>
        /\ ops[1].result = FirstAlone.result
        /\ ops[2].result = SecondAlone.result
        /\ DiskOfBoth(FirstAlone.fs, SecondAlone.fs)

\* both splits are over, the second one parsed while the first was between
\* two of its writes, and both documents hold an item of the same name
C17_Witness ==
    /\ BothDone
    /\ ops[2].met
    /\ ops[1].doc.item.v # <<>> /\ ops[2].doc.item.v # <<>>
    /\ ops[1].doc.item.v[1].name = ops[2].doc.item.v[1].name
    /\ ops[1].result.success /\ ops[2].result.success
    /\ ops[2].result.files_created = 2
\* a split that no user disturbed returns the result and leaves the file
\* system of execute run as a whole
SplitAgrees ==
    (phase = "split" /\ edits = 0) =>
        /\ split_result = SplitExecute(fs_before, doc, split_options).result
        /\ fs = SplitExecute(fs_before, doc, split_options).fs

\* a folder of the output is without its index.json although split
\* returned success: the user removed the folder between the write of its
\* index and the write of a child, whose createDirectory brought it back
SplitLostIndex ==
    /\ phase = "split" /\ split_result.success /\ ~split_options.dry_run
    /\ \E q \in DOMAIN fs : /\ fs[q].kind = "dir"
                           /\ IsPrefix(CollectionDir, q)
                           /\ joinPath(q, INDEX_JSON) \notin DOMAIN fs

\* build skipped every entry of the root order without a warning: each
\* was removed after pathExists had found it
BuildSkippedSilently ==
    /\ phase = "built" /\ build_result.success
    /\ build_result.warnings = <<>>
    /\ build_result.items_processed = 0
    /\ walk.index.order # <<>>

\* validateDirectoryStructure refused a directory that execute had found:
\* it was removed between two of the awaited checks
BuildRefusedLate ==
    /\ phase = "built"
    /\ build_result.errors \in {<<Message("Directory does not exist", <<>>)>>,
                                <<Message("Path is not a directory", <<>>)>>,
                                <<Message("Missing index.json", <<>>)>>}

\* none of these happens on the output of a split when the user waits for
\* each operation to return
OwnedUndisturbed == ~SplitLostIndex /\ ~BuildSkippedSilently /\ ~BuildRefusedLate


\* the frames that are not kept are never returned to: once a folder was
\* entered again the walk stays in the loops above its fresh frame, and
\* that frame's own loop does not come to its end
NeverResumed ==
    walk.held > 0 =>
        /\ walk.pc = "walking"
        /\ fs = fs_before
        /\ Len(walk.stack) >= walk.held
        /\ Len(walk.stack) = walk.held => Top(walk).i <= Len(Top(walk).order)

\* all frames are kept on a directory whose order entries do not lead back
\* to a folder that is being walked, and the depth of the stack is the
\* depth of the recursion
AllKeptOnTrees ==
    (walk.pc = "walking" /\ fs \in DeepTrees) => walk.held = 0 /\ walk.below = 0

\* a folder's loop is on the stack more than once only on a directory whose
\* order entries lead back to it
NoRevisitOnTrees ==
    (walk.pc = "walking" /\ fs \in DeepTrees)
        => \A k \in DOMAIN walk.stack : Visits(walk, walk.stack[k].path) = 1

\* C18: build terminates on every finite directory, also when an order
\* entry names the directory itself or the one above: it eventually returns
\* a result whose success field is a boolean
C18_BuildTerminates ==
    <>(walk.pc = "done" /\ walk.result.success \in BOOLEAN)
\* the command word of the command line, as it was typed
CommandWord == argv[3]

\* C21: commands are case-sensitive: parse returns null when the command
\* word is not exactly the lowercase word it recognises
C21_CommandsCaseSensitive ==
    (cli_command.returned /\ Len(argv) >= 3 /\ CommandWord \notin {SPLIT_WORD, BUILD_WORD})
        => cli_command.command = Absent
\* the result is the candidate followed by the first free suffix
FirstFreeSuffix(result, candidate, scope) ==
    \E n \in 1..(Cardinality(scope) + 1) :
        /\ result = Suffixed(candidate, n)
        /\ \A m \in 1..(n - 1) : Suffixed(candidate, m) \in scope

\* C22: the uniquifier returns the candidate unchanged when it is not in
\* the scope, and otherwise the candidate with " (N)" for the smallest
\* N >= 1 that is free; the returned name is never in the scope
C22_FirstFreeSuffix ==
    IsPresent(uniquified) =>
        /\ uniquified[1] \notin scope_names
        /\ raw_name \notin scope_names => uniquified[1] = raw_name
        /\ raw_name \in scope_names =>
               FirstFreeSuffix(uniquified[1], raw_name, scope_names)

\* the uniquifier had to skip a taken suffix
C22_Witness ==
    /\ IsPresent(uniquified)
    /\ raw_name \in scope_names
    /\ Suffixed(raw_name, 1) \in scope_names
    /\ uniquified[1] = Suffixed(raw_name, 2)
\* a node carrying both an item list and a request payload
IsAmbiguous(node) ==
    node.is_object /\ node.item.t = "array" /\ IsPresent(node.request)

\* the validator warned about every ambiguous node of nodes it came to, and
\* reported no error for it
RECURSIVE AmbiguousWarned(_, _, _)
AmbiguousWarned(nodes, path, validation) ==
    \A i \in DOMAIN nodes :
        (nodes[i].is_object /\ TruthyStr(nodes[i].name) /\ nodes[i].item.t = "array") =>
            /\ IsAmbiguous(nodes[i]) =>
                  /\ \E k \in DOMAIN validation.warnings :
                        validation.warnings[k].arg = ItemPath(path, i - 1)
                  /\ \A k \in DOMAIN validation.errors :
                        validation.errors[k].arg # ItemPath(path, i - 1)
            /\ AmbiguousWarned(nodes[i].item.v, ItemPath(path, i - 1), validation)

\* the processed item is on disk under dir_path: a directory for a folder,
\* a file for a request
ItemWritten(f, item, dir_path) ==
    IF item.type = "folder"
    THEN isDirectory(f, joinPath(dir_path, item.sanitized_name))
    ELSE isFile(f, joinPath(dir_path, sanitizeFileName(item.sanitized_name)))

\* every ambiguous node of nodes is on disk as a directory with a folder
\* index and its children below it, and not as a request file
RECURSIVE AmbiguousAsContainers(_, _, _, _)
AmbiguousAsContainers(f, nodes, items, dir_path) ==
    \A i \in DOMAIN nodes :
        nodes[i].item.t = "array" =>
            /\ IsAmbiguous(nodes[i]) =>
                  /\ isDirectory(f, joinPath(dir_path, items[i].sanitized_name))
                  /\ isFile(f, joinPath(joinPath(dir_path, items[i].sanitized_name),
                                        INDEX_JSON))
                  /\ f[joinPath(joinPath(dir_path, items[i].sanitized_name),
                                INDEX_JSON)].data.meta.type = "folder"
                  /\ ~pathExists(f, joinPath(dir_path,
                                     sanitizeFileName(items[i].sanitized_name)))
                  /\ Len(items[i].children) = Len(nodes[i].item.v)
                  /\ \A k \in DOMAIN items[i].children :
                        ItemWritten(f, items[i].children[k],
                                    joinPath(dir_path, items[i].sanitized_name))
            /\ AmbiguousAsContainers(f, nodes[i].item.v, items[i].children,
                                     joinPath(dir_path, items[i].sanitized_name))

\* the last split wrote the whole tree of a valid document
SplitWroteTree ==
    /\ SplitReturned /\ validateCollection(doc).is_valid
    /\ ~split_options.dry_run /\ split_result.success

\* C23: a node with both an item list and a request payload gets a validator
\* warning and no error, and split decomposes it as a Container: a directory
\* with an index record and its children below it, never a Leaf file
C23_AmbiguousIsContainer ==
    /\ (SplitReturned /\ doc.is_object /\ doc.item.t = "array" /\ IsPresent(doc.info)) =>
           AmbiguousWarned(doc.item.v, ROOT, validateCollection(doc))
    /\ SplitWroteTree =>
           AmbiguousAsContainers(fs, doc.item.v, parseCollection(doc).items, CollectionDir)

\* a split wrote a tree whose first node is ambiguous and has a child
C23_Witness ==
    /\ SplitWroteTree
    /\ doc.item.v # <<>>
    /\ IsAmbiguous(doc.item.v[1])
    /\ doc.item.v[1].item.v # <<>>
    /\ split_result.warnings # <<>>
    /\ split_result.folders_created = 2
IsPrefixOf(s, t) == Len(s) <= Len(t) /\ s = SubSeq(t, 1, Len(s))

\* C24: within one split the file system calls are issued one at a time in
\* depth-first pre-order of the input tree: a directory before its index
\* record, the index record before any child, the whole subtree of a
\* sibling before the next sibling
C24_SequentialPreOrder ==
    \A o \in DOMAIN ops :
        /\ ops[o].pc # "start" =>
              IsPrefixOf(ops[o].log, WalkOrder(ops[o].doc, ops[o].path))
        /\ ops[o].pc = "done" =>
              ops[o].log = WalkOrder(ops[o].doc, ops[o].path)

\* a split is over whose tree holds a folder with a child and a later
\* sibling, so that the three orderings are all at stake
C24_Witness ==
    /\ ops # <<>>
    /\ ops[1].pc = "done"
    /\ Len(ops[1].doc.item.v) = 2
    /\ ops[1].doc.item.v[1].item.t = "array"
    /\ ops[1].doc.item.v[1].item.v # <<>>
    /\ Len(ops[1].log) = 10
    /\ ops[1].result.success
\* the folders of the parsed items below dir_path, each with its directory
RECURSIVE FolderNodes(_, _)
FolderNodes(items, dir_path) ==
    IF items = <<>> THEN {}
    ELSE (IF Head(items).type = "folder"
          THEN {[item |-> Head(items),
                 path |-> joinPath(dir_path, Head(items).sanitized_name)]}
               \cup FolderNodes(Head(items).children,
                                joinPath(dir_path, Head(items).sanitized_name))
          ELSE {})
         \cup FolderNodes(Tail(items), dir_path)

\* the call was issued and what it was to create is not on disk
CallFailed(f, call) ==
    IF call.op = "mkdir" THEN ~isDirectory(f, call.path) ELSE ~isFile(f, call.path)

\* creating the folder's directory or writing its index record failed
FolderFailed(op, f, node) ==
    \E k \in DOMAIN op.log :
        /\ op.log[k].path \in {node.path, joinPath(node.path, INDEX_JSON)}
        /\ CallFailed(f, op.log[k])

\* nothing below the folder was asked for or appeared on disk, apart from
\* the folder's own directory and index record
NoDescendantWritten(op, f, before, node) ==
    /\ \A k \in DOMAIN op.log :
          IsPrefix(node.path, op.log[k].path) =>
             op.log[k].path \in {node.path, joinPath(node.path, INDEX_JSON)}
    /\ \A q \in DOMAIN f \ DOMAIN before :
          IsPrefix(node.path, q) =>
             q \in {node.path, joinPath(node.path, INDEX_JSON)}

FailureSurfaced(op, f, before) ==
    \A node \in FolderNodes(op.parsed.items, op.path) :
        FolderFailed(op, f, node) =>
           /\ NoDescendantWritten(op, f, before, node)
           /\ \E i \in DOMAIN op.result.errors :
                 op.result.errors[i] =
                    Message("Failed to process item", node.item.original_name)
           /\ ~op.result.success

\* what is on disk stays on disk
NoRollback ==
    \A q \in DOMAIN fs : q \in DOMAIN fs' /\ fs'[q].kind = fs[q].kind

\* C25: if creating a folder's directory or writing its index record fails
\* during split, no descendant of that folder is written, the errors name
\* the item, success is false, and everything written before the failure
\* is still on disk
C25_FailureAbortsSubtree ==
    /\ [](\A o \in DOMAIN ops :
             ops[o].pc = "done" => FailureSurfaced(ops[o], fs, fs_before))
    /\ [][NoRollback]_vars

\* a split is over in which a folder with a child failed after an earlier
\* sibling had been written
C25_Witness ==
    /\ ops # <<>>
    /\ ops[1].pc = "done"
    /\ \E node \in FolderNodes(ops[1].parsed.items, ops[1].path) :
          /\ FolderFailed(ops[1], fs, node)
          /\ node.item.children # <<>>
    /\ ops[1].parsed.items[1].type = "request"
    /\ isFile(fs, ops[1].log[5].path)
\* below dir the two file systems hold the same directories and files
SameBelow(f, g, dir) ==
    \A q \in DOMAIN f \cup DOMAIN g :
        IsPrefix(dir, q) => q \in DOMAIN f /\ q \in DOMAIN g /\ f[q] = g[q]

\* the last split succeeded with overwrite onto the output of an earlier
\* split of another tree
OverwroteEarlierOutput ==
    /\ SplitReturned
    /\ split_options.overwrite /\ ~split_options.dry_run
    /\ split_result.success
    /\ fs_before = PreviousOutput
    /\ doc # PreviousDoc
    /\ isDirectory(fs_before, split_result.output_directory)

\* C26: a successful split with overwrite onto the output of an earlier
\* split of a different tree leaves the collection directory holding
\* exactly the decomposition of the new tree
C26_OverwriteReplaces ==
    OverwroteEarlierOutput =>
        SameBelow(fs, SplitExecute(EmptyFs, doc, split_options).fs,
                  split_result.output_directory)
\* wherever the rebuilt list has as many entries as the original one, a
\* request comes back with the response field it had, absent or present
RECURSIVE ResponsesKept(_, _)
ResponsesKept(original, built) ==
    Len(original) = Len(built) =>
       \A i \in DOMAIN original :
          /\ (IsPresent(original[i].request) /\ IsPresent(built[i].request)) =>
                built[i].response = original[i].response
          /\ (original[i].item.t = "array" /\ built[i].item.t = "array") =>
                ResponsesKept(original[i].item.v, built[i].item.v)

\* C27: after split and build, an optional field that was absent (a
\* request's response, the root's variable and event) is still absent, not
\* an empty list, and one that was present has the same content
C27_AbsentStaysAbsent ==
    (RoundTripDone /\ IsPresent(rebuilt)) =>
       /\ rebuilt[1].variable = doc.variable
       /\ rebuilt[1].event = doc.event
       /\ ResponsesKept(doc.item.v, rebuilt[1].item.v)
\* C28: on every return path of split and of build the result's success
\* flag is true exactly when its errors list is empty; warnings alone never
\* make success false
C28_SuccessIffNoErrors ==
    /\ SplitReturned \/ BuildReturned =>
          (split_result.success <=> split_result.errors = <<>>)
    /\ BuildReturned =>
          (build_result.success <=> build_result.errors = <<>>)

\* a split returned with errors and the build that followed returned with
\* warnings and no error
C28_Witness ==
    /\ BuildReturned
    /\ ~split_result.success /\ split_result.errors # <<>>
    /\ build_result.success /\ build_result.warnings # <<>>

\* the return paths of split
SplitInputMissing ==
    SplitReturned /\ split_result.errors = <<Message("Input file does not exist", <<>>)>>
SplitValidationFailed ==
    SplitReturned /\ InputRead(doc) /\ ~validateCollection(doc).is_valid
SplitCancelled ==
    SplitReturned /\ split_result.errors = <<Message("Operation cancelled by user", <<>>)>>
SplitDryRun == SplitReturned /\ split_options.dry_run /\ split_result.success
SplitCaught ==
    SplitReturned /\ split_result.errors = <<Message("Split operation failed", <<>>)>>
\* the catch block was entered by readJsonFile, by parseCollection
SplitUnreadable == SplitCaught /\ ~InputParses(doc)
SplitParseThrew ==
    /\ SplitCaught /\ InputRead(doc)
    /\ split_result.collection_name # <<>> /\ split_result.output_directory = <<>>
SplitItemFailed ==
    /\ SplitReturned /\ split_result.errors # <<>>
    /\ split_result.errors[1].msg = "Failed to process item"
SplitSucceededWithWarnings ==
    SplitReturned /\ split_result.success /\ split_result.warnings # <<>>
\* the return paths of build
BuildPreconditionFailed == BuildReturned /\ PreconditionFailed
BuildRejected ==
    /\ BuildReturned /\ build_options.validate /\ ~PreconditionFailed
    /\ build_result.errors # <<>>
BuildSucceeded == BuildReturned /\ build_result.success
\* the index.json of every folder below dir_path holds the index record
\* that split wrote for that folder
RECURSIVE FolderIndexesKept(_, _, _)
FolderIndexesKept(f, items, dir_path) ==
    \A i \in DOMAIN items :
        items[i].type = "folder" =>
           /\ isFile(f, joinPath(joinPath(dir_path, items[i].sanitized_name), INDEX_JSON))
           /\ f[joinPath(joinPath(dir_path, items[i].sanitized_name), INDEX_JSON)].data
                 = createFolderIndex(items[i], dir_path)
           /\ FolderIndexesKept(f, items[i].children,
                                joinPath(dir_path, items[i].sanitized_name))

CollectionIndexKept(f, parsed_collection, dir_path) ==
    /\ isFile(f, joinPath(dir_path, INDEX_JSON))
    /\ f[joinPath(dir_path, INDEX_JSON)].data
          = createCollectionIndex(parsed_collection.info, parsed_collection.metadata,
                                  parsed_collection.structure)

\* C29: no leaf file is written over an index record: after split, for any
\* input tree, also one with a request named "index" in any letter case,
\* every directory's index.json holds the index record written for it
C29_IndexNeverClobbered ==
    (SplitWroteTree /\ edits = 0) =>
       /\ CollectionIndexKept(fs, parseCollection(doc), CollectionDir)
       /\ FolderIndexesKept(fs, parseCollection(doc).items, CollectionDir)
\* the step examines the next entry of the folder on top of the stack: it
\* asks whether the path exists and reads what is there
ReadsEntry == Visiting(walk) /\ walk' # walk

\* C30: whatever the order lists contain, every file or directory that
\* build reads lies inside the input directory given to build
C30_BuildStaysInside ==
    [][ReadsEntry => IsPrefix(walk.input_path, ChildPath(walk))]_vars
====
